---- MODULE Spec2Model ----
(***************************************************************************)
(* AstarteBot, src/rag.rs: the RAG vector store engine (RagEngine).        *)
(*                                                                         *)
(* State: the in-memory FlatIndex and position table, the id counter, the  *)
(* three mutexes that guard them, the RocksDB key namespaces (vec:, raw:,  *)
(* dedup:, __next_vector_id__), and for every caller its position inside   *)
(* index_record_sync, search, reindex_all or stats with its locals.        *)
(* Every RocksDB call and every mutex acquisition is one step, so callers  *)
(* interleave exactly where the code lets them.                            *)
(***************************************************************************)
EXTENDS Integers, Sequences, FiniteSets, TLC

(***************************************************************************)
(* Bounds of the model.                                                    *)
(***************************************************************************)
\* Events of a run: calls started (index_record, search, reindex_all, stats),
\* restarts, and injected failures.
MaxEvents == 3
\* Embedding or RocksDB failures injected in a run.
MaxFaults == 1
\* Largest `limit` a search is called with.
MaxLimit == 1
\* The calls made in the liveness specification.
LiveCalls == 2
\* FlatIndex::search on its own: the longest index and the largest k drawn.
MaxIndexLen == 3
MaxK == 4
\* Calls in a run of index_record and search calls made one after another.
DeepCalls == 5
\* EMBEDDING_DIM, scaled down from 384.
EmbeddingDim == 2

\* The concurrent callers (threads / tasks sharing the engine).
Procs == {1, 2}

(***************************************************************************)
(* Program constants.                                                      *)
(***************************************************************************)
\* rag.rs:272  content.trim().len() < 10
MinContentLen == 10
\* rag.rs:366  (limit * 3)
OverFetch == 3
\* rag.rs:311  content.chars().take(200)
PreviewChars == 200

(***************************************************************************)
(* Data.                                                                   *)
(***************************************************************************)
SourceTypes == {"conversation", "note", "memory"}
SourceIds == {1}

\* A text is its leading whitespace, the length of its trimmed body and the
\* body's identity.
NoText == [pad |-> 0, len |-> 0, body |-> ""]
TextA == [pad |-> 1, len |-> 9, body |-> "a"]
TextB == [pad |-> 0, len |-> 10, body |-> "b"]
TextC == [pad |-> 1, len |-> 12, body |-> "c"]
Texts == {TextA, TextB, TextC}

\* The arguments index_record_sync is called with.
IndexInputs ==
  { [st |-> "conversation", sid |-> 1, content |-> TextB],
    [st |-> "conversation", sid |-> 1, content |-> TextC],
    [st |-> "note", sid |-> 1, content |-> TextA],
    [st |-> "note", sid |-> 1, content |-> TextB],
    [st |-> "note", sid |-> 1, content |-> TextC],
    [st |-> "memory", sid |-> 1, content |-> TextC] }

\* Mutant: the length is taken without trimming.
UntrimmedLen(t) == t.pad + t.len
\* content.trim().len()
TrimLen(t) == t.len

Min2(a, b) == IF a < b THEN a ELSE b
Max2(a, b) == IF a > b THEN a ELSE b

\* content.chars().take(200).collect(): the first PreviewChars characters,
\* leading whitespace included.
ContentPreview(t) ==
  LET p == Min2(t.pad, PreviewChars)
  IN [pad |-> p, len |-> Min2(t.len, PreviewChars - p), body |-> t.body]

\* embed_text: an opaque deterministic function of the text; the vector has
\* EMBEDDING_DIM integer components.
EmbedComponent(t, i) ==
  IF i = 1 THEN (IF t.body = "b" THEN 2 ELSE IF t.body = "c" THEN 1 ELSE 1)
  ELSE IF i = 2 THEN (IF t.body = "b" THEN 0 ELSE IF t.body = "c" THEN 2 ELSE 1)
  ELSE 0
embed_text(t) == [i \in 1..EmbeddingDim |-> EmbedComponent(t, i)]

\* f32::to_le_bytes over the vector: 4 bytes per component, low byte first.
LeBytes4(x) == << x % 256, (x \div 256) % 256, (x \div 65536) % 256, (x \div 16777216) % 256 >>
RECURSIVE to_le_bytes(_)
to_le_bytes(v) ==
  IF v = <<>> THEN <<>> ELSE LeBytes4(Head(v)) \o to_le_bytes(Tail(v))

\* f32::from_le_bytes over chunks_exact(4).
RECURSIVE from_le_bytes(_)
from_le_bytes(b) ==
  IF Len(b) < 4 THEN <<>>
  ELSE << b[1] + 256 * b[2] + 65536 * b[3] + 16777216 * b[4] >>
       \o from_le_bytes(SubSeq(b, 5, Len(b)))

\* RagMetadata as stored under vec:{id}.
RagMetadata(st, sid, content) ==
  [source_type |-> st, source_id |-> sid, content_preview |-> ContentPreview(content)]

\* Mutant: the dedup key leaves the source type out.
DedupKeyIdOnly(st, sid) == << "", sid >>
\* format!("dedup:{}:{}", source_type, source_id)
DedupKey(st, sid) == << st, sid >>

(***************************************************************************)
(* Finite maps (the RocksDB namespaces).                                   *)
(***************************************************************************)
Put(f, k, v) == [x \in DOMAIN f \cup {k} |-> IF x = k THEN v ELSE f[x]]
\* Mutant: a delete that removes nothing.
DeleteNothing(f, k) == f
Delete(f, k) == [x \in DOMAIN f \ {k} |-> f[x]]
\* Mutant: the batch deletes nothing.
DeleteAllNothing(f, ks) == f
DeleteAll(f, ks) == [x \in DOMAIN f \ ks |-> f[x]]
EmptyMap == [x \in {} |-> 0]

(***************************************************************************)
(* FlatIndex.                                                              *)
(***************************************************************************)
\* FlatIndex::new
FlatIndexNew == << >>
\* Mutant: add drops the vector.
FlatIndexAddNothing(idx, v) == idx
\* Mutant: add puts the vector in front.
FlatIndexAddFirst(idx, v) == << v >> \o idx
\* FlatIndex::add
FlatIndexAdd(idx, v) == Append(idx, v)
\* FlatIndex::ntotal
ntotal(idx) == Len(idx)

RECURSIVE Dot(_, _)
Dot(a, b) ==
  IF a = <<>> \/ b = <<>> THEN 0 ELSE Head(a) * Head(b) + Dot(Tail(a), Tail(b))


\* rag.rs:59: let k = k.min(self.count)
ClampK(k, n) == Min2(k, n)

\* Mutant: the first kk positions in insertion order are kept.
FirstK(idx, q, kk) == { 0..(kk - 1) }

\* rag.rs:60-63: select_nth_unstable_by(k - 1, by score descending), then
\* truncate(k): the sets of (0-based) positions that can be left, kk of them,
\* none scoring less than one that is cut off.
TopK(idx, q, kk) ==
  LET P == 0..(Len(idx) - 1)
      sc(pos) == Dot(q, idx[pos + 1])
  IN { S \in SUBSET P :
         /\ Cardinality(S) = kk
         /\ \A a \in S : \A b \in P \ S : sc(a) >= sc(b) }

\* rag.rs:64: sort_by score descending over the kept positions, which
\* select_nth_unstable_by left in an unspecified order.
SortByScore(idx, q, S) ==
  LET n == Cardinality(S)
      sc(pos) == Dot(q, idx[pos + 1])
  IN { s \in [1..n -> S] :
         /\ \A i, j \in 1..n : i # j => s[i] # s[j]
         /\ \A i \in 1..(n - 1) : sc(s[i]) >= sc(s[i + 1]) }

\* FlatIndex::search: the sequences of (0-based) positions it can return.
FlatIndexSearch(idx, q, k) ==
  IF Len(idx) = 0 \/ k = 0 THEN { << >> }
  ELSE UNION { SortByScore(idx, q, S) : S \in TopK(idx, q, ClampK(k, Len(idx))) }

\* The scores FlatIndex::search returns with the positions.
Scores(idx, q, positions) == [i \in 1..Len(positions) |-> Dot(q, idx[positions[i] + 1])]

(***************************************************************************)
(* The source-of-record (SQLite) that reindex_all reads.                   *)
(***************************************************************************)
EmptyPool == [conversation_history |-> << >>, notes |-> << >>, memory |-> << >>]
SmallPool ==
  [conversation_history |-> << [id |-> 1, role |-> "user", content |-> TextB] >>,
   notes |-> << [id |-> 1, text |-> TextA] >>,
   memory |-> << >>]
Pools == {EmptyPool, SmallPool}

\* LENGTH(content) in SQL: the untrimmed length.
SqlLength(t) == t.pad + t.len

\* Mutant: the rows come in the table's storage order.
StorageOrder(rows) == rows
\* ORDER BY id: the rows in ascending order of their (unique) ids.
RECURSIVE OrderById(_)
OrderById(rows) ==
  IF rows = << >> THEN << >>
  ELSE LET m == CHOOSE i \in 1..Len(rows) : \A j \in 1..Len(rows) : rows[i].id <= rows[j].id
       IN << rows[m] >> \o OrderById(SubSeq(rows, 1, m - 1) \o SubSeq(rows, m + 1, Len(rows)))

\* SELECT ... FROM conversation_history WHERE role IN ('user','assistant')
\*   AND LENGTH(content) >= 10 ORDER BY id
ConvRows(pool) ==
  OrderById(SelectSeq(pool.conversation_history,
                      LAMBDA r : r.role \in {"user", "assistant"} /\ SqlLength(r.content) >= 10))
\* SELECT ... FROM notes ORDER BY id; embed_text = title \n content \n tags
NoteRows(pool) == OrderById(pool.notes)
\* SELECT ... FROM memory WHERE key != '__important__' AND LENGTH(value) >= 10
\*   ORDER BY id
MemRows(pool) ==
  OrderById(SelectSeq(pool.memory,
                      LAMBDA r : r.key # "__important__" /\ SqlLength(r.value) >= 10))

\* format!("{}: {}", key, value): the key, ": " and the value.
KeyValueText(key, value) ==
  [pad |-> 0, len |-> Len(key) + 2 + value.pad + value.len, body |-> value.body]

RECURSIVE MapRows(_, _)
MapRows(rows, st) ==
  IF rows = << >> THEN << >>
  ELSE << [st |-> st, sid |-> Head(rows).id,
           content |-> IF st = "conversation" THEN Head(rows).content
                       ELSE IF st = "note" THEN Head(rows).text
                       ELSE KeyValueText(Head(rows).key, Head(rows).value)] >>
       \o MapRows(Tail(rows), st)

\* The index_record_sync calls reindex_all makes, in its order: conversations,
\* then notes, then memory.
ReindexRows(pool) ==
  MapRows(ConvRows(pool), "conversation") \o MapRows(NoteRows(pool), "note")
    \o MapRows(MemRows(pool), "memory")

(***************************************************************************)
(* State.                                                                  *)
(***************************************************************************)
VARIABLES
  index,        \* RagEngine.index: the FlatIndex's vectors, in insertion order
  position_to_id, \* RagEngine.position_to_id
  next_vector_id, \* RagEngine.next_vector_id
  indexLock,    \* holder of Mutex index (0: free)
  posLock,      \* holder of Mutex position_to_id
  nextLock,     \* holder of Mutex next_vector_id
  vec,          \* meta_db, keys vec:{id}
  raw,          \* meta_db, keys raw:{id}
  dedup,        \* meta_db, keys dedup:{source_type}:{source_id}
  ctr,          \* meta_db, key __next_vector_id__
  pc,           \* each caller's position in the code
  loc,          \* each caller's arguments and locals
  events,       \* events so far: calls started, restarts, injected failures
  faultsLeft,   \* failures that may still be injected
  alloc,        \* history: the vector_ids handed out, written and lost
  hist,         \* history: the state before the running call, the last calls
  sqlite        \* the SQLite tables the bot and the tools have written

vars == << index, position_to_id, next_vector_id, indexLock, posLock, nextLock,
           vec, raw, dedup, ctr, pc, loc, events, faultsLeft, alloc, hist,
           sqlite >>

mem == << index, position_to_id, next_vector_id >>
locks == << indexLock, posLock, nextLock >>
db == << vec, raw, dedup, ctr >>

CounterKey == "__next_vector_id__"

NoBatch == [vec |-> {}, raw |-> {}, dedup |-> {}, ctr |-> {}]

LocInit ==
  [op |-> "none", tool |-> "", arg |-> "", st |-> "", sid |-> 0, content |-> NoText,
   old_id |-> -1, embedding |-> << >>, vector_id |-> -1,
   query |-> NoText, limit |-> 0, filter |-> "", k |-> 0,
   positions |-> << >>, scores |-> << >>, i |-> 0, results |-> << >>,
   rows |-> << >>, ri |-> 0, count |-> 0, row_errs |-> 0, batch |-> NoBatch,
   st_ntotal |-> 0, st_next |-> 0, st_meta |-> 0, res |-> ""]

\* The engine's state a call can change.
StateNow ==
  [index |-> index, position_to_id |-> position_to_id,
   next_vector_id |-> next_vector_id,
   vec |-> vec, raw |-> raw, dedup |-> dedup, ctr |-> ctr]
EmptyState ==
  [index |-> << >>, position_to_id |-> << >>, next_vector_id |-> 0,
   vec |-> EmptyMap, raw |-> EmptyMap, dedup |-> EmptyMap, ctr |-> EmptyMap]

\* hist.ok: the running (or last) call started with no other call running.
\* hist.pre: the state when it started. hist.last: the call that returned last
\* (its locals and result). hist.prev: the call that returned before the
\* running one started, with the metadata count and the dedup entry before it.
\* hist.okCalls: the calls so far, when all of them were index_record calls
\* that ran one after another and returned Ok (-1 otherwise); hist.newKeys:
\* those of them that brought content of trimmed length >= 10 for a record
\* with no dedup entry. hist.restarted: the last step was a restart.
HistOff ==
  [ok |-> FALSE, pre |-> EmptyState, last |-> LocInit, prev |-> LocInit,
   prevMeta |-> 0, prevHad |-> FALSE, okCalls |-> -1, newKeys |-> 0,
   restarted |-> FALSE]
HistInit == [HistOff EXCEPT !.okCalls = 0]

AllIdle == \A q \in Procs : pc[q] = "idle"

HistBegin ==
  IF AllIdle
  THEN [ok |-> TRUE, pre |-> StateNow, last |-> LocInit,
        prev |-> IF hist.ok THEN hist.last ELSE LocInit,
        prevMeta |-> IF hist.ok THEN Cardinality(DOMAIN hist.pre.vec) ELSE 0,
        prevHad |-> IF hist.ok /\ hist.last.op = "index_record"
                    THEN DedupKey(hist.last.st, hist.last.sid) \in DOMAIN hist.pre.dedup
                    ELSE FALSE,
        okCalls |-> IF hist.restarted THEN -1 ELSE hist.okCalls,
        newKeys |-> IF hist.restarted THEN 0 ELSE hist.newKeys,
        restarted |-> FALSE]
  ELSE HistOff

\* The same at the start of a call that is not index_record.
HistBeginOther == [HistBegin EXCEPT !.okCalls = -1, !.newKeys = 0]

InitEngine ==
  /\ index = FlatIndexNew
  /\ position_to_id = << >>
  /\ next_vector_id = 0
  /\ indexLock = 0 /\ posLock = 0 /\ nextLock = 0
  /\ vec = EmptyMap /\ raw = EmptyMap /\ dedup = EmptyMap /\ ctr = EmptyMap
  /\ pc = [p \in Procs |-> "idle"]
  /\ loc = [p \in Procs |-> LocInit]
  /\ events = 0
  /\ alloc = [since |-> {}, ever |-> -1, written |-> {}, pointed |-> {},
             lost |-> {}, stale |-> {}]
  /\ hist = HistInit
  /\ sqlite = EmptyPool

InitEngineLive ==
  /\ index = FlatIndexNew
  /\ position_to_id = << >>
  /\ next_vector_id = 0
  /\ indexLock = 0 /\ posLock = 0 /\ nextLock = 0
  /\ vec = EmptyMap /\ raw = EmptyMap /\ dedup = EmptyMap /\ ctr = EmptyMap
  /\ pc = [p \in Procs |-> "idle"]
  /\ loc = [p \in Procs |-> LocInit]
  /\ events = MaxEvents - LiveCalls
  /\ alloc = [since |-> {}, ever |-> -1, written |-> {}, pointed |-> {},
             lost |-> {}, stale |-> {}]
  /\ hist = HistInit
  /\ sqlite = EmptyPool

\* A fresh data directory; failures may be injected.
Init == InitEngine /\ faultsLeft = MaxFaults
\* A fresh data directory; no embedding or RocksDB call fails.
InitSeq == InitEngine /\ faultsLeft = 0

\* Callers are interchangeable: a new call runs on the first idle one.
CanStart(p) ==
  /\ pc[p] = "idle"
  /\ \A q \in Procs : q < p => pc[q] # "idle"
  /\ events < MaxEvents

\* Whether the next RocksDB call or embedding fails.
FaultChoice == IF faultsLeft > 0 /\ events < MaxEvents THEN {FALSE, TRUE} ELSE {FALSE}
UseFault(f) ==
  /\ faultsLeft' = IF f THEN faultsLeft - 1 ELSE faultsLeft
  /\ events' = IF f THEN events + 1 ELSE events

\* Mutex::lock is granted when no one holds the mutex.
\* self.index.lock()
IndexLockFree == indexLock = 0
\* Mutant: position_to_id's mutex is granted only while index's is free.
PosLockAfterIndexFree == posLock = 0 /\ indexLock = 0
\* self.position_to_id.lock()
PosLockFree == posLock = 0
\* Mutant: the counter's mutex is not taken.
NextLockIgnored == TRUE
\* self.next_vector_id.lock()
NextLockFree == nextLock = 0

\* A call of p returns `res` to its caller, with locals l.
Return(p, l, res, h) ==
  /\ pc' = [pc EXCEPT ![p] = "idle"]
  /\ loc' = [loc EXCEPT ![p] = LocInit]
  /\ hist' = IF h.ok
              THEN [h EXCEPT !.last = [l EXCEPT !.res = res],
                             !.okCalls = IF l.op = "index_record" /\ res = "ok"
                                            /\ h.okCalls >= 0
                                         THEN h.okCalls + 1 ELSE -1,
                             !.newKeys = IF ~(l.op = "index_record" /\ res = "ok"
                                              /\ h.okCalls >= 0)
                                         THEN 0
                                         ELSE IF /\ TrimLen(l.content) >= MinContentLen
                                                 /\ DedupKey(l.st, l.sid) \notin DOMAIN h.pre.dedup
                                              THEN h.newKeys + 1 ELSE h.newKeys]
              ELSE h

\* index_record_sync returns `res`. Called by reindex_all, the loop logs an
\* error (row_errs counts the warnings), counts the row and goes on whatever
\* the result (rag.rs:454-465, 481-486, 504-509).
IRReturn(p, l, res, h) ==
  IF l.op = "reindex_all"
  THEN /\ pc' = [pc EXCEPT ![p] = "rx_row"]
       /\ loc' = [loc EXCEPT ![p] =
                    [LocInit EXCEPT !.op = "reindex_all", !.rows = l.rows,
                                    !.ri = l.ri + 1, !.count = l.count + 1,
                                    !.row_errs = l.row_errs + (IF res = "ok" THEN 0 ELSE 1)]]
       /\ hist' = h
  ELSE Return(p, l, res, h)

Goto(p, l, label) ==
  /\ pc' = [pc EXCEPT ![p] = label]
  /\ loc' = [loc EXCEPT ![p] = l]
  /\ UNCHANGED hist

(***************************************************************************)
(* index_record_sync (rag.rs:261-349).                                     *)
(***************************************************************************)
\* rag.rs:271-276: skip short content, else go on to the dedup lookup.
IREnter(p, l, h) ==
  IF TrimLen(l.content) < MinContentLen
  THEN IRReturn(p, l, "ok", h)
  ELSE /\ pc' = [pc EXCEPT ![p] = "ir_dedup"]
       /\ loc' = [loc EXCEPT ![p] = l]
       /\ hist' = h

IndexRecordCall(p) ==
  /\ CanStart(p)
  /\ events' = events + 1
  /\ \E a \in IndexInputs :
       IREnter(p, [LocInit EXCEPT !.op = "index_record", !.st = a.st, !.sid = a.sid,
                                  !.content = a.content], HistBegin)
  /\ UNCHANGED << mem, locks, db, faultsLeft, alloc, sqlite >>

\* Mutant: conversations are replaced like notes.
NeverImmutable(st) == FALSE
\* Conversations are immutable (rag.rs:280).
IsImmutable(st) == st = "conversation"

\* Mutant: the locks are taken and the append is made before the embedding.
AppendBeforeEmbed == "ir_lock_index"
\* rag.rs:296-297: after the dedup check and the deletes comes the embedding.
AfterDedup == "ir_embed"

\* rag.rs:279-286: meta_db.get(dedup_key)
IRDedup(p) ==
  /\ pc[p] = "ir_dedup"
  /\ \E f \in FaultChoice :
       /\ UseFault(f)
       /\ LET l == loc[p]
              key == DedupKey(l.st, l.sid)
          IN IF f THEN IRReturn(p, l, "store_err", hist)
             ELSE IF key \in DOMAIN dedup
                  THEN IF IsImmutable(l.st)
                       THEN IRReturn(p, l, "ok", hist)
                       ELSE Goto(p, [l EXCEPT !.old_id = dedup[key]], "ir_del_vec")
                  ELSE Goto(p, l, AfterDedup)
  /\ UNCHANGED << mem, locks, db, alloc, sqlite >>

\* rag.rs:289: meta_db.delete(vec:{old_id})
IRDelVec(p) ==
  /\ pc[p] = "ir_del_vec"
  /\ \E f \in FaultChoice :
       /\ UseFault(f)
       /\ IF f THEN IRReturn(p, loc[p], "store_err", hist) /\ UNCHANGED vec
          ELSE vec' = Delete(vec, loc[p].old_id) /\ Goto(p, loc[p], "ir_del_raw")
  /\ UNCHANGED << mem, locks, raw, dedup, ctr, alloc, sqlite >>

\* rag.rs:290: meta_db.delete(raw:{old_id})
IRDelRaw(p) ==
  /\ pc[p] = "ir_del_raw"
  /\ \E f \in FaultChoice :
       /\ UseFault(f)
       /\ IF f THEN IRReturn(p, loc[p], "store_err", hist) /\ UNCHANGED raw
          ELSE raw' = Delete(raw, loc[p].old_id) /\ Goto(p, loc[p], "ir_del_dedup")
  /\ UNCHANGED << mem, locks, vec, dedup, ctr, alloc, sqlite >>

\* rag.rs:291: meta_db.delete(dedup_key)
IRDelDedup(p) ==
  /\ pc[p] = "ir_del_dedup"
  /\ \E f \in FaultChoice :
       /\ UseFault(f)
       /\ IF f THEN IRReturn(p, loc[p], "store_err", hist) /\ UNCHANGED dedup
          ELSE /\ dedup' = Delete(dedup, DedupKey(loc[p].st, loc[p].sid))
               /\ Goto(p, loc[p], AfterDedup)
  /\ UNCHANGED << mem, locks, vec, raw, ctr, alloc, sqlite >>

\* rag.rs:297: self.embed_text(content)?
IREmbed(p) ==
  /\ pc[p] = "ir_embed"
  /\ \E f \in FaultChoice :
       /\ UseFault(f)
       /\ IF f THEN IRReturn(p, loc[p], "embed_err", hist)
          ELSE Goto(p, [loc[p] EXCEPT !.embedding = embed_text(loc[p].content)],
                    "ir_lock_next")
  /\ UNCHANGED << mem, locks, db, alloc, sqlite >>

\* rag.rs:301-302: next_vector_id.lock(); let id = *next
IRLockNext(p) ==
  /\ pc[p] = "ir_lock_next"
  /\ NextLockFree
  /\ nextLock' = p
  /\ Goto(p, [loc[p] EXCEPT !.vector_id = next_vector_id], "ir_alloc")
  /\ UNCHANGED << mem, indexLock, posLock, db, events, faultsLeft, alloc, sqlite >>

\* Mutant: the counter does not move.
NextAfterSame(id) == id
\* rag.rs:303: *next += 1
NextAfter(id) == id + 1

\* rag.rs:303-308: *next += 1; put(__next_vector_id__, *next)?; the guard drops.
IRAlloc(p) ==
  /\ pc[p] = "ir_alloc"
  /\ next_vector_id' = NextAfter(next_vector_id)
  /\ nextLock' = 0
  /\ \E f \in FaultChoice :
       /\ UseFault(f)
       /\ IF f THEN IRReturn(p, loc[p], "store_err", hist) /\ UNCHANGED << ctr, alloc >>
          ELSE /\ ctr' = Put(ctr, CounterKey, NextAfter(next_vector_id))
               /\ alloc' = [alloc EXCEPT !.since = alloc.since \cup {loc[p].vector_id},
                                          !.ever = Max2(alloc.ever, loc[p].vector_id),
                                          !.stale = alloc.stale \ {p}]
               /\ Goto(p, loc[p], "ir_put_vec")
  /\ UNCHANGED << index, position_to_id, indexLock, posLock, vec, raw, dedup, sqlite >>

\* rag.rs:324-326: put(vec:{id}, metadata json)
IRPutVec(p) ==
  /\ pc[p] = "ir_put_vec"
  /\ \E f \in FaultChoice :
       /\ UseFault(f)
       /\ IF f THEN /\ IRReturn(p, loc[p], "store_err", hist)
                    /\ alloc' = IF p \in alloc.stale THEN alloc
                                 ELSE [alloc EXCEPT !.lost = alloc.lost \cup {loc[p].vector_id}]
                    /\ UNCHANGED vec
          ELSE /\ vec' = Put(vec, loc[p].vector_id,
                             RagMetadata(loc[p].st, loc[p].sid, loc[p].content))
               /\ Goto(p, loc[p], "ir_put_raw")
               /\ UNCHANGED alloc
  /\ UNCHANGED << mem, locks, raw, dedup, ctr, sqlite >>

\* rag.rs:329-334: put(raw:{id}, little-endian bytes of the embedding)
IRPutRaw(p) ==
  /\ pc[p] = "ir_put_raw"
  /\ \E f \in FaultChoice :
       /\ UseFault(f)
       /\ IF f THEN IRReturn(p, loc[p], "store_err", hist) /\ UNCHANGED << raw, alloc >>
          ELSE /\ raw' = Put(raw, loc[p].vector_id, to_le_bytes(loc[p].embedding))
               /\ alloc' = [alloc EXCEPT !.written = alloc.written \cup {loc[p].vector_id}]
               /\ Goto(p, loc[p], "ir_put_dedup")
  /\ UNCHANGED << mem, locks, vec, dedup, ctr, sqlite >>

\* rag.rs:337-338: put(dedup_key, vector_id)
IRPutDedup(p) ==
  /\ pc[p] = "ir_put_dedup"
  /\ \E f \in FaultChoice :
       /\ UseFault(f)
       /\ IF f THEN /\ IRReturn(p, loc[p], "store_err", hist)
                    /\ UNCHANGED << dedup, alloc >>
          ELSE /\ dedup' = Put(dedup, DedupKey(loc[p].st, loc[p].sid), loc[p].vector_id)
               /\ alloc' = [alloc EXCEPT !.pointed = alloc.pointed \cup {loc[p].vector_id}]
               /\ Goto(p, loc[p], "ir_lock_index")
  /\ UNCHANGED << mem, locks, vec, raw, ctr, sqlite >>

\* rag.rs:342: self.index.lock()
IRLockIndex(p) ==
  /\ pc[p] = "ir_lock_index"
  /\ IndexLockFree
  /\ indexLock' = p
  /\ Goto(p, loc[p], "ir_lock_pos")
  /\ UNCHANGED << mem, posLock, nextLock, db, events, faultsLeft, alloc, sqlite >>

\* rag.rs:343: self.position_to_id.lock()
IRLockPos(p) ==
  /\ pc[p] = "ir_lock_pos"
  /\ PosLockFree
  /\ posLock' = p
  /\ Goto(p, loc[p], "ir_append")
  /\ UNCHANGED << mem, indexLock, nextLock, db, events, faultsLeft, alloc, sqlite >>

\* Mutant: the position table is not extended.
PosMapPushNothing(pm, vector_id) == pm
\* rag.rs:345: pos_map.push(vector_id)
PosMapPush(pm, vector_id) == Append(pm, vector_id)

\* rag.rs:344-348: index.add(&embedding); pos_map.push(vector_id); both guards drop.
IRAppend(p) ==
  /\ pc[p] = "ir_append"
  /\ index' = FlatIndexAdd(index, loc[p].embedding)
  /\ position_to_id' = PosMapPush(position_to_id, loc[p].vector_id)
  /\ indexLock' = 0
  /\ posLock' = 0
  /\ IRReturn(p, loc[p], "ok", hist)
  /\ UNCHANGED << next_vector_id, nextLock, db, events, faultsLeft, alloc, sqlite >>

IndexRecordStep(p) ==
  \/ IRDedup(p) \/ IRDelVec(p) \/ IRDelRaw(p) \/ IRDelDedup(p) \/ IREmbed(p)
  \/ IRLockNext(p) \/ IRAlloc(p) \/ IRPutVec(p) \/ IRPutRaw(p) \/ IRPutDedup(p)
  \/ IRLockIndex(p) \/ IRLockPos(p) \/ IRAppend(p)

(***************************************************************************)
(* search (rag.rs:351-410).                                                *)
(***************************************************************************)
Queries == {TextB}
Filters == {"", "note"}

\* Mutant: the whole index is fetched.
OverFetchAll(limit, n) == n

\* rag.rs:366: (limit * 3).min(index.ntotal()).max(1)
OverFetchK(limit, n) == Max2(Min2(limit * OverFetch, n), 1)

\* Mutant: the filter is not applied.
FilterIgnored(meta, filter) == TRUE
\* rag.rs:393-397: the optional source_type filter ("" is None).
FilterPasses(meta, filter) == filter = "" \/ meta.source_type = filter

\* rag.rs:374-402: one candidate position: the result it adds (none when the
\* position lies beyond the position table, when vec:{id} is absent, or when
\* the filter rejects it). vector_id is kept with the result to name the
\* record; the code returns score and metadata.
SearchLookup(position, score, pm, vecdb, filter) ==
  IF position >= Len(pm) THEN << >>
  ELSE LET vector_id == pm[position + 1]
       IN IF vector_id \notin DOMAIN vecdb THEN << >>
          ELSE IF ~FilterPasses(vecdb[vector_id], filter) THEN << >>
          ELSE << [score |-> score, vector_id |-> vector_id,
                   metadata |-> vecdb[vector_id]] >>

\* rag.rs:404: if results.len() >= limit { break }, reached after a push only.
LoopEnds(results, added, limit, i, n) ==
  (added # << >> /\ Len(results) >= limit) \/ i >= n

SearchCall(p) ==
  /\ CanStart(p)
  /\ events' = events + 1
  /\ \E q \in Queries, limit \in 0..MaxLimit, filter \in Filters :
       /\ pc' = [pc EXCEPT ![p] = "s_lock_index"]
       /\ loc' = [loc EXCEPT ![p] = [LocInit EXCEPT !.op = "search", !.query = q,
                                                   !.limit = limit, !.filter = filter]]
  /\ hist' = HistBeginOther
  /\ UNCHANGED << mem, locks, db, faultsLeft, alloc, sqlite >>

\* Mutant: the empty index is not told apart.
IndexNeverEmpty(idx) == FALSE
\* rag.rs:359: index.ntotal() == 0
IndexIsEmpty(idx) == ntotal(idx) = 0

\* rag.rs:357-361: index.lock(); an empty index returns Ok(vec![]).
SLockIndex(p) ==
  /\ pc[p] = "s_lock_index"
  /\ IndexLockFree
  /\ IF IndexIsEmpty(index)
     THEN Return(p, loc[p], "ok", hist) /\ UNCHANGED indexLock
     ELSE indexLock' = p /\ Goto(p, loc[p], "s_embed")
  /\ UNCHANGED << mem, posLock, nextLock, db, events, faultsLeft, alloc, sqlite >>

\* rag.rs:363-368: embed the query, then index.search(&query_vec, k).
SEmbed(p) ==
  /\ pc[p] = "s_embed"
  /\ \E f \in FaultChoice :
       /\ UseFault(f)
       /\ IF f THEN Return(p, loc[p], "embed_err", hist) /\ indexLock' = 0
          ELSE /\ \E pos \in FlatIndexSearch(index, embed_text(loc[p].query),
                                              OverFetchK(loc[p].limit, ntotal(index))) :
                    Goto(p, [loc[p] EXCEPT !.positions = pos,
                                           !.k = OverFetchK(loc[p].limit, ntotal(index)),
                                           !.scores = Scores(index, embed_text(loc[p].query), pos),
                                           !.embedding = embed_text(loc[p].query)],
                         "s_lock_pos")
               /\ UNCHANGED indexLock
  /\ UNCHANGED << mem, posLock, nextLock, db, alloc, sqlite >>

\* rag.rs:370-373: self.position_to_id.lock(); the loop has no turn when
\* there is no candidate.
SLockPos(p) ==
  /\ pc[p] = "s_lock_pos"
  /\ PosLockFree
  /\ posLock' = p
  /\ Goto(p, [loc[p] EXCEPT !.i = 1],
          IF Len(loc[p].positions) = 0 THEN "s_done" ELSE "s_walk")
  /\ UNCHANGED << mem, indexLock, nextLock, db, events, faultsLeft, alloc, sqlite >>

\* rag.rs:373-407: one turn of the loop over the candidates. A failed metadata
\* read returns the error (both guards drop).
SWalk(p) ==
  /\ pc[p] = "s_walk"
  /\ LET l == loc[p]
         position == l.positions[l.i]
         reads == position < Len(position_to_id)
     IN \E f \in (IF reads THEN FaultChoice ELSE {FALSE}) :
          /\ UseFault(f)
          /\ IF f
             THEN /\ Return(p, l, "store_err", hist)
                  /\ indexLock' = 0 /\ posLock' = 0
             ELSE LET added == SearchLookup(position, l.scores[l.i], position_to_id,
                                            vec, l.filter)
                      l2 == [l EXCEPT !.results = l.results \o added, !.i = l.i + 1]
                  IN /\ Goto(p, l2, IF LoopEnds(l2.results, added, l.limit, l.i,
                                                Len(l.positions))
                                    THEN "s_done" ELSE "s_walk")
                     /\ UNCHANGED << indexLock, posLock >>
  /\ UNCHANGED << mem, nextLock, db, alloc, sqlite >>

\* rag.rs:409: Ok(results); both guards drop.
SReturn(p) ==
  /\ pc[p] = "s_done"
  /\ indexLock' = 0 /\ posLock' = 0
  /\ Return(p, loc[p], "ok", hist)
  /\ UNCHANGED << mem, nextLock, db, events, faultsLeft, alloc, sqlite >>

SearchStep(p) == SLockIndex(p) \/ SEmbed(p) \/ SLockPos(p) \/ SWalk(p) \/ SReturn(p)

\* The loop of rag.rs:373-407 run to its end on a fixed state.
RECURSIVE Collect(_, _, _, _, _, _, _, _)
Collect(positions, i, results, q, idx, pm, vecdb, lf) ==
  IF i > Len(positions) THEN results
  ELSE LET added == SearchLookup(positions[i], Scores(idx, q, positions)[i],
                                 pm, vecdb, lf.filter)
           r2 == results \o added
       IN IF LoopEnds(r2, added, lf.limit, i, Len(positions)) THEN r2
          ELSE Collect(positions, i + 1, r2, q, idx, pm, vecdb, lf)

\* What search(query, limit, filter) can return on state s when it runs alone
\* and nothing fails.
SearchResults(s, query, limit, filter) ==
  IF ntotal(s.index) = 0 THEN { << >> }
  ELSE { Collect(pos, 1, << >>, embed_text(query), s.index, s.position_to_id, s.vec,
                 [limit |-> limit, filter |-> filter]) :
           pos \in FlatIndexSearch(s.index, embed_text(query),
                                   OverFetchK(limit, ntotal(s.index))) }

(***************************************************************************)
(* reindex_all (rag.rs:412-517).                                           *)
(***************************************************************************)
\* History at a step of p's reindex_all that resets the counter or wipes the
\* store: the ids handed out before it no longer count, and a caller that
\* holds one of them (stale) no longer loses an id of the new numbering.
AllocReset(p, written) ==
  [alloc EXCEPT !.since = {}, !.lost = {}, !.written = written,
                !.pointed = alloc.pointed \cap written,
                !.stale = { q \in Procs \ {p} : pc[q] = "ir_put_vec" }]

ReindexCall(p) ==
  /\ CanStart(p)
  /\ events' = events + 1
  /\ \E pool \in Pools :
       /\ pc' = [pc EXCEPT ![p] = "rx_clear_index"]
       /\ loc' = [loc EXCEPT ![p] = [LocInit EXCEPT !.op = "reindex_all",
                                                   !.rows = ReindexRows(pool)]]
  /\ hist' = HistBeginOther
  /\ UNCHANGED << mem, locks, db, faultsLeft, alloc, sqlite >>

\* rag.rs:416-419: { index.lock(); *index = FlatIndex::new(); }
RXClearIndex(p) ==
  /\ pc[p] = "rx_clear_index"
  /\ IndexLockFree
  /\ index' = FlatIndexNew
  /\ Goto(p, loc[p], "rx_clear_pos")
  /\ UNCHANGED << position_to_id, next_vector_id, locks, db, events, faultsLeft, alloc, sqlite >>

\* rag.rs:420-423: { position_to_id.lock(); pos_map.clear(); }
RXClearPos(p) ==
  /\ pc[p] = "rx_clear_pos"
  /\ PosLockFree
  /\ position_to_id' = << >>
  /\ Goto(p, loc[p], "rx_reset")
  /\ UNCHANGED << index, next_vector_id, locks, db, events, faultsLeft, alloc, sqlite >>

\* rag.rs:424-428: { next.lock(); *next = 0; put(__next_vector_id__, 0)?; }
RXReset(p) ==
  /\ pc[p] = "rx_reset"
  /\ NextLockFree
  /\ next_vector_id' = 0
  /\ alloc' = AllocReset(p, alloc.written)
  /\ \E f \in FaultChoice :
       /\ UseFault(f)
       /\ IF f THEN Return(p, loc[p], "store_err", hist) /\ UNCHANGED ctr
          ELSE ctr' = Put(ctr, CounterKey, 0) /\ Goto(p, loc[p], "rx_iter")
  /\ UNCHANGED << index, position_to_id, locks, vec, raw, dedup, sqlite >>

\* rag.rs:431-436: iterate every key into the write batch.
RXIter(p) ==
  /\ pc[p] = "rx_iter"
  /\ \E f \in FaultChoice :
       /\ UseFault(f)
       /\ IF f THEN Return(p, loc[p], "store_err", hist)
          ELSE Goto(p, [loc[p] EXCEPT !.batch =
                          [vec |-> DOMAIN vec, raw |-> DOMAIN raw,
                           dedup |-> DOMAIN dedup, ctr |-> DOMAIN ctr]], "rx_write")
  /\ UNCHANGED << mem, locks, db, alloc, sqlite >>

\* rag.rs:437: meta_db.write(batch)?: the batch's deletes, atomically.
RXWrite(p) ==
  /\ pc[p] = "rx_write"
  /\ \E f \in FaultChoice :
       /\ UseFault(f)
       /\ IF f THEN Return(p, loc[p], "store_err", hist) /\ UNCHANGED << db, alloc >>
          ELSE /\ vec' = DeleteAll(vec, loc[p].batch.vec)
               /\ raw' = DeleteAll(raw, loc[p].batch.raw)
               /\ dedup' = DeleteAll(dedup, loc[p].batch.dedup)
               /\ ctr' = DeleteAll(ctr, loc[p].batch.ctr)
               /\ alloc' = AllocReset(p, {})
               /\ Goto(p, [loc[p] EXCEPT !.batch = NoBatch, !.ri = 1, !.count = 0],
                       "rx_row")
  /\ UNCHANGED << mem, locks, sqlite >>

\* rag.rs:452-516: the next source row goes to index_record_sync; after the
\* last one reindex_all returns Ok(count).
RXRow(p) ==
  /\ pc[p] = "rx_row"
  /\ LET l == loc[p]
     IN IF l.ri > Len(l.rows)
        THEN Return(p, l, "ok", hist)
        ELSE IREnter(p, [l EXCEPT !.st = l.rows[l.ri].st, !.sid = l.rows[l.ri].sid,
                                  !.content = l.rows[l.ri].content], hist)
  /\ UNCHANGED << mem, locks, db, events, faultsLeft, alloc, sqlite >>

ReindexStep(p) ==
  \/ RXClearIndex(p) \/ RXClearPos(p) \/ RXReset(p) \/ RXIter(p) \/ RXWrite(p)
  \/ RXRow(p)

(***************************************************************************)
(* stats (rag.rs:556-575).                                                 *)
(***************************************************************************)
StatsCall(p) ==
  /\ CanStart(p)
  /\ events' = events + 1
  /\ pc' = [pc EXCEPT ![p] = "st_lock_index"]
  /\ loc' = [loc EXCEPT ![p] = [LocInit EXCEPT !.op = "stats"]]
  /\ hist' = HistBeginOther
  /\ UNCHANGED << mem, locks, db, faultsLeft, alloc, sqlite >>

\* rag.rs:557: self.index.lock()
STLockIndex(p) ==
  /\ pc[p] = "st_lock_index"
  /\ IndexLockFree
  /\ indexLock' = p
  /\ Goto(p, loc[p], "st_read_next")
  /\ UNCHANGED << mem, posLock, nextLock, db, events, faultsLeft, alloc, sqlite >>

\* rag.rs:558: *self.next_vector_id.lock().unwrap(): locked for the read only.
STReadNext(p) ==
  /\ pc[p] = "st_read_next"
  /\ NextLockFree
  /\ Goto(p, [loc[p] EXCEPT !.st_next = next_vector_id], "st_count")
  /\ UNCHANGED << mem, locks, db, events, faultsLeft, alloc, sqlite >>

\* rag.rs:561-574: count the vec: keys (an iterator error ends the count
\* early); return (index.ntotal(), meta_count, next_id); the guard drops.
STCount(p) ==
  /\ pc[p] = "st_count"
  /\ indexLock' = 0
  /\ \E f \in FaultChoice :
       /\ UseFault(f)
       /\ \E c \in (IF f THEN 0..(Cardinality(DOMAIN vec) - 1)
                    ELSE {Cardinality(DOMAIN vec)}) :
            Return(p, [loc[p] EXCEPT !.st_ntotal = ntotal(index), !.st_meta = c],
                   "ok", hist)
  /\ UNCHANGED << mem, posLock, nextLock, db, alloc, sqlite >>

StatsStep(p) == STLockIndex(p) \/ STReadNext(p) \/ STCount(p)

\* stats() on state s, run alone with nothing failing.
StatsOf(s) == << ntotal(s.index), Cardinality(DOMAIN s.vec), s.next_vector_id >>

(***************************************************************************)
(* Restart: RagEngine::init on the data directory (rag.rs:149-171) and     *)
(* rebuild_index_from_rocksdb (rag.rs:519-554).                            *)
(***************************************************************************)
SetMin(S) == CHOOSE x \in S : \A y \in S : x <= y

\* The decimal digits of an id, as in the key raw:{id}.
RECURSIVE Digits(_)
Digits(n) == IF n < 10 THEN << n >> ELSE Digits(n \div 10) \o << n % 10 >>

\* Byte order of two keys raw:{a} and raw:{b}, the order in which RocksDB's
\* prefix_iterator yields them.
RECURSIVE SeqLess(_, _)
SeqLess(a, b) ==
  IF a = << >> THEN b # << >>
  ELSE IF b = << >> THEN FALSE
  ELSE IF Head(a) # Head(b) THEN Head(a) < Head(b)
  ELSE SeqLess(Tail(a), Tail(b))
KeyLess(a, b) == SeqLess(Digits(a), Digits(b))
KeyMin(S) == CHOOSE x \in S : \A y \in S \ {x} : KeyLess(x, y)

\* Mutant: the entries stay in the iterator's key order.
RECURSIVE KeyOrderIds(_)
KeyOrderIds(S) ==
  IF S = {} THEN << >> ELSE << KeyMin(S) >> \o KeyOrderIds(S \ {KeyMin(S)})
\* entries.sort_by_key(|(id, _)| *id)
RECURSIVE SortedIds(_)
SortedIds(S) ==
  IF S = {} THEN << >> ELSE << SetMin(S) >> \o SortedIds(S \ {SetMin(S)})

\* Stands for a key raw:{suffix} whose suffix is not a number (the engine
\* itself writes the keys raw:{id} with id >= 0 only).
NonNumericKey == -1
\* Mutant: every key suffix is taken for an id.
ParsesAlways(id) == TRUE
\* rag.rs:531: id_str.parse::<i64>() is Ok
ParsesAsId(id) == id # NonNumericKey

\* Mutant: the rebuild finds no entry.
RebuildEntriesNone(rawdb) == {}
\* rag.rs:523-541: the raw:{id} entries with a numeric id and exactly
\* EMBEDDING_DIM * 4 bytes; the others are passed over.
RebuildEntries(rawdb) ==
  { id \in DOMAIN rawdb : ParsesAsId(id) /\ Len(rawdb[id]) = EmbeddingDim * 4 }

\* Mutant: init does not read the persisted counter.
LoadNextIdFresh(c) == 0
\* rag.rs:150-155: the persisted counter, 0 when the key is absent.
LoadNextId(c) == IF CounterKey \in DOMAIN c THEN c[CounterKey] ELSE 0

\* The process stops at any point (every running call is lost) and starts
\* again from the data directory.
Restart ==
  /\ events < MaxEvents
  /\ events' = events + 1
  /\ LET ids == SortedIds(RebuildEntries(raw))
     IN /\ position_to_id' = ids
        /\ index' = [i \in 1..Len(ids) |-> from_le_bytes(raw[ids[i]])]
  /\ next_vector_id' = LoadNextId(ctr)
  /\ indexLock' = 0 /\ posLock' = 0 /\ nextLock' = 0
  /\ pc' = [p \in Procs |-> "idle"]
  /\ loc' = [p \in Procs |-> LocInit]
  /\ hist' = [HistOff EXCEPT !.okCalls = IF AllIdle THEN hist.okCalls ELSE -1,
                             !.newKeys = IF AllIdle THEN hist.newKeys ELSE 0,
                             !.restarted = TRUE]
  /\ alloc' = [alloc EXCEPT !.stale = {}]
  /\ UNCHANGED << db, faultsLeft, sqlite >>

(***************************************************************************)
(* The callers of the engine: the tools (tools.rs), the message handler    *)
(* (bot.rs) and the reindex command (main.rs).  Each writes or reads the   *)
(* SQLite tables and then calls the engine.                                *)
(***************************************************************************)
MemKeys == {"color", "hue"}
Blue == [pad |-> 0, len |-> 4, body |-> "blue"]
Red == [pad |-> 0, len |-> 3, body |-> "red"]
MemValues == {Blue, Red, TextC}
NoteTexts == {TextA, TextB}
MessageTexts == {TextB}

HasMemory(pl, key) == \E i \in 1..Len(pl.memory) : pl.memory[i].key = key

\* Mutant: the upsert replaces the row, which gets a new id.
memory_replace(pl, key, value) ==
  IF HasMemory(pl, key)
  THEN [pl EXCEPT !.memory =
          [i \in 1..Len(pl.memory) |->
             IF pl.memory[i].key = key
             THEN [pl.memory[i] EXCEPT !.value = value,
                                       !.id = pl.memory[i].id + Cardinality(MemKeys)]
             ELSE pl.memory[i]]]
  ELSE [pl EXCEPT !.memory =
          Append(pl.memory, [id |-> Len(pl.memory) + 1, key |-> key, value |-> value])]
\* db.rs:540-554: INSERT INTO memory ... ON CONFLICT(segment, key) DO UPDATE
\* SET value = excluded.value: an existing row keeps its id.
memory_set(pl, key, value) ==
  IF HasMemory(pl, key)
  THEN [pl EXCEPT !.memory =
          [i \in 1..Len(pl.memory) |->
             IF pl.memory[i].key = key
             THEN [pl.memory[i] EXCEPT !.value = value] ELSE pl.memory[i]]]
  ELSE [pl EXCEPT !.memory =
          Append(pl.memory, [id |-> Len(pl.memory) + 1, key |-> key, value |-> value])]

\* tools.rs:989-996: SELECT id FROM memory WHERE segment = ? AND key = ?
MemoryId(pl, key) ==
  pl.memory[CHOOSE i \in 1..Len(pl.memory) : pl.memory[i].key = key].id

\* db.rs:446-467: INSERT INTO notes ...; last_insert_rowid()
note_create(pl, text) ==
  [pl EXCEPT !.notes = Append(pl.notes, [id |-> Len(pl.notes) + 1, text |-> text])]

\* db.rs:201-240: INSERT INTO conversation_history ...; last_insert_rowid()
conversation_save(pl, role, text) ==
  [pl EXCEPT !.conversation_history =
     Append(pl.conversation_history,
            [id |-> Len(pl.conversation_history) + 1, role |-> role, content |-> text])]

ToolIndex(p, tool, arg, st, sid, text) ==
  IREnter(p, [LocInit EXCEPT !.op = "index_record", !.tool = tool, !.arg = arg,
                             !.st = st, !.sid = sid, !.content = text], HistBegin)

\* tools.rs:977-1005: memory::set, then the row's id is looked up and
\* "key: value" is indexed; the result of index_record_sync is dropped.
execute_memory_set(p) ==
  /\ CanStart(p)
  /\ events' = events + 1
  /\ \E key \in MemKeys, value \in MemValues :
       LET pl == memory_set(sqlite, key, value)
       IN /\ sqlite' = pl
          /\ ToolIndex(p, "memory_set", key, "memory", MemoryId(pl, key),
                       KeyValueText(key, value))
  /\ UNCHANGED << mem, locks, db, faultsLeft, alloc >>

\* tools.rs:890-912: db::note_create, then "title\ncontent\ntags" is indexed.
execute_store_note(p) ==
  /\ CanStart(p)
  /\ events' = events + 1
  /\ \E text \in NoteTexts :
       LET pl == note_create(sqlite, text)
       IN /\ sqlite' = pl
          /\ ToolIndex(p, "store_note", "", "note", Len(pl.notes), text)
  /\ UNCHANGED << mem, locks, db, faultsLeft, alloc >>

\* bot.rs:149-177: every text message is saved to conversation_history and
\* indexed under its row id.
handle_message(p) ==
  /\ CanStart(p)
  /\ events' = events + 1
  /\ \E text \in MessageTexts :
       LET pl == conversation_save(sqlite, "user", text)
       IN /\ sqlite' = pl
          /\ ToolIndex(p, "handle_message", "", "conversation",
                       Len(pl.conversation_history), text)
  /\ UNCHANGED << mem, locks, db, faultsLeft, alloc >>

\* main.rs:179-185: the reindex command opens the pool, initialises the
\* engine from the data directory and runs reindex_all on the pool.
rag_reindex(p) ==
  /\ CanStart(p)
  /\ events' = events + 1
  /\ LET ids == SortedIds(RebuildEntries(raw))
     IN /\ position_to_id' = ids
        /\ index' = [i \in 1..Len(ids) |-> from_le_bytes(raw[ids[i]])]
  /\ next_vector_id' = LoadNextId(ctr)
  /\ pc' = [pc EXCEPT ![p] = "rx_clear_index"]
  /\ loc' = [loc EXCEPT ![p] = [LocInit EXCEPT !.op = "reindex_all",
                                              !.tool = "rag_reindex",
                                              !.rows = ReindexRows(sqlite)]]
  /\ hist' = HistBeginOther
  /\ UNCHANGED << locks, db, faultsLeft, alloc, sqlite >>

ToolCall(p) ==
  \/ execute_memory_set(p) \/ execute_store_note(p) \/ handle_message(p)
  \/ rag_reindex(p)

(***************************************************************************)
(* Specifications.                                                         *)
(***************************************************************************)
ProcStep(p) ==
  \/ IndexRecordCall(p) \/ IndexRecordStep(p)
  \/ SearchCall(p) \/ SearchStep(p)
  \/ ReindexCall(p) \/ ReindexStep(p)
  \/ StatsCall(p) \/ StatsStep(p)

Next == (\E p \in Procs : ProcStep(p)) \/ Restart

\* Concurrent callers, injected failures, a restart at any point.
Spec == Init /\ [][Next]_vars

OthersIdle(p) == \A q \in Procs \ {p} : pc[q] = "idle"

NextSeq == (\E p \in Procs : OthersIdle(p) /\ ProcStep(p)) \/ (AllIdle /\ Restart)

\* Calls one after another, nothing fails, restarts between calls.
SpecSeq == InitSeq /\ [][NextSeq]_vars

NextConc == \E p \in Procs : ProcStep(p)

\* Concurrent callers, nothing fails, no restart.
SpecConc == InitSeq /\ [][NextConc]_vars

NextIndexSearch ==
  \/ \E p \in Procs :
       IndexRecordCall(p) \/ IndexRecordStep(p) \/ SearchCall(p) \/ SearchStep(p)
  \/ Restart

\* Concurrent index_record and search calls and no other call, injected
\* failures, a restart at any point.
SpecIndexSearch == Init /\ [][NextIndexSearch]_vars

\* Every running call keeps running: a step it can take is taken.
Running(p) == IndexRecordStep(p) \/ SearchStep(p) \/ ReindexStep(p) \/ StatsStep(p)

\* A fresh data directory, nothing fails, and LiveCalls calls may be made.
InitLive == InitEngineLive /\ faultsLeft = 0

\* Concurrent callers, nothing fails, no restart; no call stops for ever at
\* a step it can take.
SpecLive == InitLive /\ [][NextConc]_vars /\ \A p \in Procs : WF_vars(Running(p))

\* The data directory an earlier run left: records under ids of one and two
\* digits, each with the raw vector index_record stored for it (rag.rs:329-334)
\* or with a raw value of another length.
StoredIds == {2, 9, 10}
StoredTexts == {TextB, TextC}
WrongLengthBytes == to_le_bytes([i \in 1..(EmbeddingDim - 1) |-> 1])
StoredRaw == { to_le_bytes(embed_text(t)) : t \in StoredTexts } \cup {WrongLengthBytes}
RawStores == UNION { [S -> StoredRaw] : S \in SUBSET StoredIds }

InitStore ==
  /\ raw \in RawStores
  /\ vec = [id \in DOMAIN raw |-> RagMetadata("conversation", id, TextB)]
  /\ dedup = EmptyMap
  /\ ctr = [x \in {CounterKey} |-> 11]
  /\ index = FlatIndexNew
  /\ position_to_id = << >>
  /\ next_vector_id = 0
  /\ indexLock = 0 /\ posLock = 0 /\ nextLock = 0
  /\ pc = [p \in Procs |-> "idle"]
  /\ loc = [p \in Procs |-> LocInit]
  /\ events = 0
  /\ faultsLeft = 0
  /\ alloc = [since |-> {}, ever |-> -1, written |-> {}, pointed |-> {},
             lost |-> {}, stale |-> {}]
  /\ hist = HistOff
  /\ sqlite = EmptyPool

\* RagEngine::init on a data directory an earlier run left.
SpecRebuild == InitStore /\ [][Restart]_vars

\* The SQLite tables the reindex command finds, their rows in any storage
\* order: conversations of the indexed roles and of another, notes and
\* memory rows of both lengths, the key __important__.
ConvTables ==
  LET c1 == [id |-> 1, role |-> "user", content |-> TextB]
      c2 == [id |-> 2, role |-> "assistant", content |-> TextC]
      c3 == [id |-> 3, role |-> "tool", content |-> TextB]
  IN { << >>, << c1 >>, << c2, c1 >>, << c3, c1, c2 >> }
NoteTables ==
  LET n1 == [id |-> 1, text |-> TextB]
      n2 == [id |-> 2, text |-> TextC]
      n3 == [id |-> 3, text |-> TextA]
  IN { << >>, << n1 >>, << n2, n1 >>, << n1, n3, n2 >> }
MemTables ==
  LET m1 == [id |-> 1, key |-> "color", value |-> TextC]
      m2 == [id |-> 2, key |-> "hue", value |-> TextB]
      m3 == [id |-> 3, key |-> "__important__", value |-> TextC]
      m4 == [id |-> 4, key |-> "tone", value |-> Red]
  IN { << >>, << m1 >>, << m2, m1 >>, << m3, m2, m4, m1 >> }
ReindexPools ==
  { [conversation_history |-> c, notes |-> n, memory |-> m] :
      c \in ConvTables, n \in NoteTables, m \in MemTables }

InitPools ==
  /\ sqlite \in ReindexPools
  /\ index = FlatIndexNew
  /\ position_to_id = << >>
  /\ next_vector_id = 0
  /\ indexLock = 0 /\ posLock = 0 /\ nextLock = 0
  /\ vec = EmptyMap /\ raw = EmptyMap /\ dedup = EmptyMap /\ ctr = EmptyMap
  /\ pc = [p \in Procs |-> "idle"]
  /\ loc = [p \in Procs |-> LocInit]
  /\ events = 0
  /\ faultsLeft = 0
  /\ alloc = [since |-> {}, ever |-> -1, written |-> {}, pointed |-> {},
             lost |-> {}, stale |-> {}]
  /\ hist = HistInit

\* The steps index_record_sync takes for a row of reindex_all: the store was
\* wiped, so no row finds a dedup entry.
RowStep(p) ==
  \/ IRDedup(p) \/ IREmbed(p) \/ IRLockNext(p) \/ IRAlloc(p) \/ IRPutVec(p)
  \/ IRPutRaw(p) \/ IRPutDedup(p) \/ IRLockIndex(p) \/ IRLockPos(p) \/ IRAppend(p)

NextReindex ==
  \E p \in Procs : OthersIdle(p) /\ (rag_reindex(p) \/ ReindexStep(p) \/ RowStep(p))

\* The reindex command on a fresh data directory and any of the tables, with
\* no other writer; nothing fails.
SpecReindex == InitPools /\ [][NextReindex]_vars

NextTools ==
  \E p \in Procs :
    OthersIdle(p) /\ (ToolCall(p) \/ IndexRecordStep(p) \/ ReindexStep(p))

\* The bot, the tools and the reindex command, one call at a time; nothing
\* fails.
SpecTools == InitSeq /\ [][NextTools]_vars

(***************************************************************************)
(* Properties.                                                             *)
(***************************************************************************)
NoLockHeld == indexLock = 0 /\ posLock = 0 /\ nextLock = 0

\* The step in which p's index_record_sync is handed its vector_id: the
\* counter was incremented and persisted (rag.rs:300-308).
Allocates(p) == pc[p] = "ir_alloc" /\ pc'[p] = "ir_put_vec"

\* The vec: entries whose metadata names the record (st, sid).
VecOf(vecdb, st, sid) ==
  { id \in DOMAIN vecdb :
      vecdb[id].source_type = st /\ vecdb[id].source_id = sid }

\* The call that returned last ran alone and was index_record(st, sid, ..)
\* with a dedup entry for (st, sid) present when it started.
LastWasReindexOfExisting ==
  /\ hist.ok
  /\ hist.last.op = "index_record"
  /\ DedupKey(hist.last.st, hist.last.sid) \in DOMAIN hist.pre.dedup

\* C1: whenever no caller is inside a locked section, FlatIndex holds as
\* many vectors as the position table has entries.
C1_IndexMatchesPositionTable ==
  NoLockHeld => ntotal(index) = Len(position_to_id)

\* C2: no two index_record calls are given the same vector_id between two
\* reindex_all steps: the id handed out in an allocation step was never
\* handed out since the counter was last reset or the store last wiped.
C2_NoDuplicateVectorId ==
  [][\A p \in Procs : Allocates(p) => loc[p].vector_id \notin alloc.since]_vars

\* C2 witness: two index_record calls hold their ids at the same time, one
\* of them having waited for the counter's mutex.
C2_Witness ==
  /\ pc[1] \in {"ir_put_vec", "ir_put_raw", "ir_put_dedup"}
  /\ pc[2] \in {"ir_put_vec", "ir_put_raw", "ir_put_dedup"}
  /\ loc[1].op = "index_record" /\ loc[2].op = "index_record"
  /\ alloc.since = {loc[1].vector_id, loc[2].vector_id}
  /\ loc[1].vector_id # loc[2].vector_id

\* C3: an index_record call that fails in the embedding leaves the whole
\* state (vec:, raw:, dedup:, counter, FlatIndex, position table) as it was
\* when the call started.
C3_EmbedFailureLeavesStateUntouched ==
  (hist.ok /\ hist.last.op = "index_record" /\ hist.last.res = "embed_err")
    => StateNow = hist.pre

\* C4: once all concurrent index_record calls have returned, every
\* (source_type, source_id) has at most one vec: entry, and it is the one
\* its dedup: key points to.
C4_OneActiveVectorPerDedupKey ==
  AllIdle =>
    \A st \in SourceTypes, sid \in SourceIds :
      /\ Cardinality(VecOf(vec, st, sid)) <= 1
      /\ \A id \in VecOf(vec, st, sid) :
           /\ DedupKey(st, sid) \in DOMAIN dedup
           /\ dedup[DedupKey(st, sid)] = id

\* C5 as stated: every vector_id allocated is greater than every vector_id
\* allocated before it, across index_record, reindex_all and restart.
C5_StrictlyIncreasingEver ==
  [][\A p \in Procs : Allocates(p) => loc[p].vector_id > alloc.ever]_vars

\* C5 amended: every vector_id allocated is greater than every vector_id
\* allocated before it since the last reindex_all, across index_record
\* (with its replace path) and restart.
C5_StrictlyIncreasingSinceReindex ==
  [][\A p \in Procs : Allocates(p) =>
       \A id \in alloc.since : loc[p].vector_id > id]_vars

\* C5 witness: a replacing call was handed id 1 after id 0, which it deleted.
C5_Witness ==
  \E p \in Procs :
    /\ pc[p] = "ir_put_vec"
    /\ loc[p].old_id = 0
    /\ loc[p].vector_id = 1
    /\ alloc.since = {0, 1}

\* C6: index_record("conversation", sid, ..) on an existing dedup key returns
\* success and changes nothing: every durable key, FlatIndex, the position
\* table and the counter, hence stats(), are as before the call.
C6_ConversationReindexIsNoOp ==
  (LastWasReindexOfExisting /\ hist.last.st = "conversation")
    => /\ hist.last.res = "ok"
       /\ StateNow = hist.pre
       /\ StatsOf(StateNow) = StatsOf(hist.pre)

\* C6 witness: such a call returned, and its content was not the stored one.
C6_Witness ==
  /\ LastWasReindexOfExisting
  /\ hist.last.st = "conversation"
  /\ TrimLen(hist.last.content) >= MinContentLen
  /\ \E id \in DOMAIN vec :
       /\ vec[id].source_type = "conversation"
       /\ vec[id].content_preview # ContentPreview(hist.last.content)

\* The last two calls were index_record for the same note or memory record,
\* one right after the other, with different contents of trimmed length >= 10.
TwoCallsSameKey ==
  /\ hist.ok
  /\ hist.last.op = "index_record" /\ hist.prev.op = "index_record"
  /\ hist.last.st \in {"note", "memory"}
  /\ hist.last.st = hist.prev.st /\ hist.last.sid = hist.prev.sid
  /\ hist.last.content # hist.prev.content
  /\ TrimLen(hist.last.content) >= MinContentLen
  /\ TrimLen(hist.prev.content) >= MinContentLen

\* After two such calls exactly one vec:/raw: pair exists for the record, the
\* second call's; the first call's vec: and raw: entries are gone; and no
\* search returns the first record.
OneActiveRecord ==
  LET new == hist.last.vector_id
      old == hist.prev.vector_id
  IN /\ VecOf(vec, hist.last.st, hist.last.sid) = {new}
     /\ vec[new] = RagMetadata(hist.last.st, hist.last.sid, hist.last.content)
     /\ new \in DOMAIN raw
     /\ raw[new] = to_le_bytes(embed_text(hist.last.content))
     /\ old # new
     /\ old \notin DOMAIN vec
     /\ old \notin DOMAIN raw
     /\ \A q \in Queries, limit \in 0..MaxLimit, filter \in Filters \cup SourceTypes :
          \A r \in SearchResults(StateNow, q, limit, filter) :
            \A i \in 1..Len(r) :
              /\ r[i].vector_id # old
              /\ r[i].metadata # RagMetadata(hist.prev.st, hist.prev.sid,
                                              hist.prev.content)

\* C7 as stated: after two such calls one record is active, the first call's
\* is gone and never found, and the metadata count is exactly 1 higher than
\* before the first call.
C7_ReplaceNetsOneMoreAlways ==
  TwoCallsSameKey =>
    /\ OneActiveRecord
    /\ Cardinality(DOMAIN vec) = hist.prevMeta + 1

\* C7 amended: after two such calls one record is active, the first call's
\* is gone and never found, and the metadata count is 1 higher than before
\* the first call when the record was new then, and the same as before the
\* first call when the record was already indexed.
C7_ReplaceLeavesOneActiveRecord ==
  TwoCallsSameKey =>
    /\ OneActiveRecord
    /\ ~hist.prevHad => Cardinality(DOMAIN vec) = hist.prevMeta + 1
    /\ hist.prevHad => Cardinality(DOMAIN vec) = hist.prevMeta

\* C7 witness: two such calls returned, the first one having inserted the
\* record, and the first call's vector is still in the index.
C7_Witness ==
  /\ TwoCallsSameKey
  /\ ~hist.prevHad
  /\ \E i \in 1..Len(position_to_id) : position_to_id[i] = hist.prev.vector_id

\* The call that returned last replaced an existing note or memory record.
ReplacedExisting ==
  /\ LastWasReindexOfExisting
  /\ hist.last.st \in {"note", "memory"}
  /\ TrimLen(hist.last.content) >= MinContentLen
  /\ hist.last.res = "ok"

\* C8 as stated: replacing a note or memory record leaves stats().0, the
\* index vector count, as it was before the replacing call.
C8_ReplaceKeepsIndexCount ==
  ReplacedExisting => StatsOf(StateNow)[1] = StatsOf(hist.pre)[1]

\* C8 amended: replacing a note or memory record raises stats().0 by exactly
\* one (the new vector is appended and the old position stays as an orphan)
\* and leaves stats().1, the metadata count, as it was.
C8_ReplaceGrowsIndexByOne ==
  ReplacedExisting =>
    /\ StatsOf(StateNow)[1] = StatsOf(hist.pre)[1] + 1
    /\ StatsOf(StateNow)[2] = StatsOf(hist.pre)[2]

\* C8 witness: a replacing call with new content returned, and the index
\* holds the old vector and the new one.
C8_Witness ==
  /\ ReplacedExisting
  /\ hist.last.old_id \notin DOMAIN vec
  /\ hist.last.vector_id \in DOMAIN vec
  /\ ntotal(index) >= 2

\* C9: search returns at most `limit` results, for limit = 0 too.
C9_AtMostLimitResults ==
  \A p \in Procs : pc[p] = "s_done" => Len(loc[p].results) <= loc[p].limit

\* The candidate p's search is looking at is an orphan (its vector_id has no
\* vec: entry) or lies beyond the position table.
AtOrphan(p) ==
  /\ pc[p] = "s_walk"
  /\ LET position == loc[p].positions[loc[p].i]
     IN \/ position >= Len(position_to_id)
        \/ position_to_id[position + 1] \notin DOMAIN vec

\* C10: every record search collects had its vec: entry in the store when it
\* was looked up and passes the source_type filter; an orphan or a position
\* beyond the position table is skipped, the search goes on without failing.
C10_SearchSkipsOrphans ==
  [][\A p \in Procs :
       /\ (pc'[p] \in {"s_walk", "s_done"} /\ Len(loc'[p].results) > Len(loc[p].results))
            => LET r == loc'[p].results[Len(loc'[p].results)]
               IN /\ r.vector_id \in DOMAIN vec
                  /\ r.metadata = vec[r.vector_id]
                  /\ r.vector_id = position_to_id[loc[p].positions[loc[p].i] + 1]
                  /\ loc[p].filter # "" => r.metadata.source_type = loc[p].filter
       /\ (AtOrphan(p) /\ loc'[p] # loc[p] /\ events' = events)
            => /\ pc'[p] \in {"s_walk", "s_done"}
               /\ loc'[p].results = loc[p].results
               /\ loc'[p].i = loc[p].i + 1]_vars

\* C10 witness: a search ended with a result although one of its candidates
\* was an orphan.
C10_Witness ==
  \E p \in Procs :
    /\ pc[p] = "s_done"
    /\ Len(loc[p].results) >= 1
    /\ \E j \in 1..Len(loc[p].positions) :
         /\ loc[p].positions[j] < Len(position_to_id)
         /\ position_to_id[loc[p].positions[j] + 1] \notin DOMAIN vec

\* C11: while index_record calls run beside it, every position a search
\* got from FlatIndex has its position-table entry, and the vec: and raw:
\* entries of the vector_id there were written before; the index the search
\* holds has as many vectors as the position table has entries.
C11_SearchSeesWholeRecords ==
  \A p \in Procs :
    pc[p] \in {"s_lock_pos", "s_walk", "s_done"} =>
      /\ ntotal(index) = Len(position_to_id)
      /\ \A j \in 1..Len(loc[p].positions) :
           /\ loc[p].positions[j] < Len(position_to_id)
           /\ position_to_id[loc[p].positions[j] + 1] \in alloc.written

\* C11 witness: a search walks its candidates while an index_record call has
\* written its vec:, raw: and dedup: entries and waits for the index mutex.
C11_Witness ==
  \E p, q \in Procs :
    /\ pc[p] = "s_walk"
    /\ Len(loc[p].positions) >= 1
    /\ pc[q] = "ir_lock_index"
    /\ loc[q].vector_id \in DOMAIN vec \cap DOMAIN raw
    /\ \A i \in 1..Len(position_to_id) : position_to_id[i] # loc[q].vector_id

\* C12: a search that returns an error returns the embedding's error.
C12_SearchFailsOnlyOnEmbedding ==
  (hist.ok /\ hist.last.op = "search" /\ hist.last.res # "ok")
    => hist.last.res = "embed_err"

\* The step is a restart.
RestartStep == hist'.restarted

\* C13: a search that finds FlatIndex empty returns at once: the list is
\* empty, the result is Ok, nothing has failed and nothing has changed,
\* whatever the query, the limit and the filter.
C13_EmptyIndexSearchReturnsEmpty ==
  [][\A p \in Procs :
       (/\ pc[p] = "s_lock_index" /\ pc'[p] # "s_lock_index"
        /\ ntotal(index) = 0 /\ ~RestartStep)
         => /\ pc'[p] = "idle"
            /\ events' = events /\ faultsLeft' = faultsLeft
            /\ StateNow' = StateNow
            /\ locks' = locks
            /\ hist.ok => /\ hist'.last.op = "search"
                           /\ hist'.last.res = "ok"
                           /\ hist'.last.results = << >>]_vars

\* C13 witness: a search with a limit and a filter returned the empty list
\* from an empty index, at a point where a failure could have been injected.
C13_Witness ==
  /\ hist.ok
  /\ hist.last.op = "search" /\ hist.last.res = "ok"
  /\ hist.last.results = << >>
  /\ hist.last.limit >= 1 /\ hist.last.filter = "note"
  /\ ntotal(hist.pre.index) = 0
  /\ faultsLeft > 0 /\ events < MaxEvents

\* The engine started empty, index_record was called hist.okCalls times, one
\* call after the other, every call returned Ok, and then it restarted.
RestartedAfterCalls == hist.restarted /\ hist.okCalls >= 0

\* C14 as stated: after N index_record calls that each returned success and
\* a restart, stats().0 is N.
C14_RestartCountIsCallCount ==
  RestartedAfterCalls => StatsOf(StateNow)[1] = hist.okCalls

\* C14 amended: after N such calls and a restart, stats().0 is the number of
\* those calls that brought content of trimmed length >= 10 for a record not
\* indexed before, which is the number of raw: entries and at most N.
C14_RestartCountIsNewKeyCount ==
  RestartedAfterCalls =>
    /\ StatsOf(StateNow)[1] = hist.newKeys
    /\ StatsOf(StateNow)[1] = Cardinality(DOMAIN raw)
    /\ hist.newKeys <= hist.okCalls

\* C14 witness: restarted after two calls, the second replacing the record of
\* the first: one vector is rebuilt.
C14_Witness ==
  /\ RestartedAfterCalls
  /\ hist.okCalls = 2 /\ hist.newKeys = 1
  /\ alloc.since = {0, 1}
  /\ position_to_id = << 1 >>

\* The last two calls were reindex_all on the same source rows, one right
\* after the other, and both returned Ok.
TwoReindexRuns ==
  /\ hist.ok
  /\ hist.last.op = "reindex_all" /\ hist.prev.op = "reindex_all"
  /\ hist.last.res = "ok" /\ hist.prev.res = "ok"
  /\ hist.last.rows = hist.prev.rows

\* C15: reindex_all twice in a row on an unchanged source-of-record gives
\* the same stats() after the second call as after the first.
C15_ReindexTwiceSameStats ==
  TwoReindexRuns => StatsOf(StateNow) = StatsOf(hist.pre)

\* C15 witness: two such calls returned and the source has a row that is
\* indexed.
C15_Witness ==
  /\ TwoReindexRuns
  /\ Len(hist.last.rows) >= 1
  /\ ntotal(index) >= 1
  /\ next_vector_id >= 1

\* C16: the number reindex_all returns is the number of records it
\* ingested: the vectors in the index and the vec: entries when it returns.
C16_ReindexReturnsIngestedCount ==
  (hist.ok /\ hist.last.op = "reindex_all" /\ hist.last.res = "ok")
    => /\ hist.last.count = ntotal(index)
       /\ hist.last.count = Cardinality(DOMAIN vec)

\* The step is one of the two clearing steps of a reindex_all.
ReindexClears ==
  \E p \in Procs :
    \/ pc[p] = "rx_clear_index" /\ pc'[p] = "rx_clear_pos"
    \/ pc[p] = "rx_clear_pos" /\ pc'[p] = "rx_reset"

\* a is the beginning of b.
IsPrefix(a, b) == Len(a) <= Len(b) /\ SubSeq(b, 1, Len(a)) = a

\* C17 as stated: only reindex_all makes the index vector count go down.
C17_OnlyReindexShrinksIndex ==
  [][ntotal(index') < ntotal(index) => ReindexClears]_vars

\* C17 amended: index_record, search and stats keep every position of the
\* index and of the position table, orphans included; a restart rebuilds
\* exactly the vector_ids that have a raw: entry, in ascending order, so it
\* drops every orphan.
C17_OrphansStayUntilRebuild ==
  [][(/\ (~ReindexClears /\ ~RestartStep)
           => (IsPrefix(index, index') /\ IsPrefix(position_to_id, position_to_id'))
      /\ RestartStep
           => (/\ ntotal(index') = Cardinality(DOMAIN raw)
               /\ Len(position_to_id') = Cardinality(DOMAIN raw)
               /\ \A i \in 1..Len(position_to_id') :
                    /\ position_to_id'[i] \in DOMAIN raw
                    /\ index'[i] = from_le_bytes(raw[position_to_id'[i]])
                    /\ \A j \in 1..(i - 1) : position_to_id'[j] < position_to_id'[i]))]_vars

\* C17 witness: the index held the orphan of a replaced record, and after a
\* restart it holds the replacing record only.
C17_Witness ==
  /\ hist.restarted
  /\ DOMAIN vec = {1} /\ DOMAIN raw = {1}
  /\ vec[1].source_type \in {"note", "memory"}
  /\ ntotal(index) = 1
  /\ ntotal(index) < Cardinality(alloc.since)

\* C18: a reindex_all during which the indexing of a source row failed (the
\* embedding or a durable-store call) returns a failure to its caller.
C18_ReindexSurfacesRowFailures ==
  (hist.ok /\ hist.last.op = "reindex_all" /\ hist.last.row_errs > 0)
    => hist.last.res # "ok"

\* C19: when the write of vec:{id} fails after the counter was persisted,
\* the call ends there and the id is lost: with no reindex_all running, no
\* index_record call is handed it afterwards, not after a restart either,
\* and it has no vec: entry, no raw: entry and no entry in the position table.
C19_LostIdStaysLost ==
  [][/\ \A p \in Procs :
          /\ Allocates(p) => loc[p].vector_id \notin alloc.lost
          /\ (pc[p] = "ir_put_vec" /\ loc[p].vector_id \in alloc'.lost \ alloc.lost)
               => pc'[p] \in {"idle", "rx_row"}
      /\ \A id \in alloc'.lost :
          /\ id \notin DOMAIN vec'
          /\ id \notin DOMAIN raw'
          /\ \A i \in 1..Len(position_to_id') : position_to_id'[i] # id]_vars

\* C19 witness: id 0 was lost, and a later call was handed id 1 and wrote
\* vec:1.
C19_Witness ==
  /\ alloc.lost = {0}
  /\ alloc.since = {0, 1}
  /\ 1 \in DOMAIN vec
  /\ next_vector_id = 2

\* C20: an index_record call that aborts on a failed durable-store read or
\* write leaves nothing behind but the advanced counter: the vec:, raw: and
\* dedup: entries, FlatIndex and the position table are as before the call.
C20_StoreFailureLeavesOnlyCounter ==
  (hist.ok /\ hist.last.op = "index_record" /\ hist.last.res = "store_err")
    => [StateNow EXCEPT !.next_vector_id = hist.pre.next_vector_id,
                        !.ctr = hist.pre.ctr] = hist.pre

(***************************************************************************)
(* C21.  index_record with content whose trimmed length is below 10 (9 in  *)
(* particular) returns success and changes nothing: no counter advance, no *)
(* durable key written or deleted, no index append.  With trimmed length   *)
(* exactly 10 and no dedup entry for the record, the record is indexed:    *)
(* one new vec:, raw: and dedup: entry and one new index position.         *)
(***************************************************************************)
LastIndexRecordReturned ==
  hist.ok /\ AllIdle /\ hist.last.op = "index_record"

C21_ShortIsNoOpTenIsIndexed ==
  LastIndexRecordReturned =>
    LET l == hist.last
        key == DedupKey(l.st, l.sid)
    IN /\ (l.content.len < MinContentLen =>
             l.res = "ok" /\ StateNow = hist.pre)
       /\ (l.content.len = MinContentLen /\ key \notin DOMAIN hist.pre.dedup =>
             /\ l.res = "ok"
             /\ \E id \in DOMAIN vec \ DOMAIN hist.pre.vec :
                  /\ DOMAIN vec = DOMAIN hist.pre.vec \cup {id}
                  /\ DOMAIN raw = DOMAIN hist.pre.raw \cup {id}
                  /\ id \notin DOMAIN hist.pre.raw
                  /\ DOMAIN dedup = DOMAIN hist.pre.dedup \cup {key}
                  /\ dedup[key] = id
                  /\ vec[id].source_type = l.st /\ vec[id].source_id = l.sid
                  /\ position_to_id = Append(hist.pre.position_to_id, id)
             /\ ntotal(index) = ntotal(hist.pre.index) + 1
             /\ next_vector_id = hist.pre.next_vector_id + 1)

\* Content of trimmed length 9 (10 with its leading blank) was offered to an
\* engine that holds a record, and content of length exactly 10 was indexed.
C21_Witness ==
  /\ LastIndexRecordReturned
  /\ hist.last.content.len = MinContentLen - 1
  /\ hist.last.content.pad + hist.last.content.len >= MinContentLen
  /\ hist.prev.op = "index_record"
  /\ hist.prev.content.len = MinContentLen
  /\ Cardinality(DOMAIN vec) = 1

(***************************************************************************)
(* C22.  Setting the same memory (segment, key) twice through the          *)
(* memory_set tool (color -> blue, then color -> red) indexes both values  *)
(* under the same dedup key (memory, row id), the row id being stable      *)
(* across the upsert: afterwards exactly one vec: entry exists for the     *)
(* key, it carries the second value, and the metadata count has grown by   *)
(* one in total.                                                           *)
(***************************************************************************)
\* The last two calls were memory_set calls for one key that had no record
\* in the engine before the first of them.
TwoMemorySets ==
  /\ hist.ok /\ AllIdle
  /\ hist.last.tool = "memory_set" /\ hist.prev.tool = "memory_set"
  /\ hist.last.arg = hist.prev.arg
  /\ ~hist.prevHad

MemoryVecIds(sid) ==
  { id \in DOMAIN vec : vec[id].source_type = "memory" /\ vec[id].source_id = sid }

SecondValueIsTheRecord ==
  /\ hist.last.sid = hist.prev.sid
  /\ Cardinality(MemoryVecIds(hist.last.sid)) = 1
  /\ \A id \in MemoryVecIds(hist.last.sid) :
       vec[id].content_preview = ContentPreview(hist.last.content)
  /\ Cardinality(DOMAIN vec) = hist.prevMeta + 1

\* As claimed, for every key and every pair of values.
C22_SetTwiceLeavesSecondValue ==
  TwoMemorySets => SecondValueIsTheRecord

\* C22 as it holds: the claim's outcome needs the second "key: value" text
\* to have a trimmed length of at least 10, as "color: red" has; two texts
\* that are both shorter leave the key without any record.
C22_SetTwiceLeavesSecondValueIfLongEnough ==
  TwoMemorySets =>
    /\ hist.last.sid = hist.prev.sid
    /\ (hist.last.content.len >= MinContentLen => SecondValueIsTheRecord)
    /\ (hist.last.content.len < MinContentLen /\ hist.prev.content.len < MinContentLen =>
          MemoryVecIds(hist.last.sid) = {} /\ Cardinality(DOMAIN vec) = hist.prevMeta)

\* color -> blue, then color -> red.
C22_Witness ==
  /\ TwoMemorySets
  /\ hist.last.arg = "color"
  /\ hist.prev.content = KeyValueText("color", Blue)
  /\ hist.last.content = KeyValueText("color", Red)
  /\ hist.last.content.len = MinContentLen
  /\ SecondValueIsTheRecord

(***************************************************************************)
(* C29.  For the same source rows, reindex_all produces the same set of    *)
(* active records (the same dedup keys with the same embedded text) as     *)
(* live indexing through the bot and the tools produced: a memory or note  *)
(* that live indexing made searchable is still searchable after            *)
(* reindex_all, and the reverse.                                           *)
(***************************************************************************)
\* The records with metadata: source and indexed text.
ActiveRecords(v) ==
  { << v[id].source_type, v[id].source_id, v[id].content_preview >> : id \in DOMAIN v }

C29_ReindexKeepsLiveRecords ==
  (hist.ok /\ AllIdle /\ hist.last.op = "reindex_all") =>
    ActiveRecords(vec) = ActiveRecords(hist.pre.vec)

(***************************************************************************)
(* C23.  No interleaving of concurrent index_record, search, stats and     *)
(* reindex_all calls deadlocks on the engine's three mutexes: every call   *)
(* that requests a lock eventually obtains it, provided the lock holders   *)
(* keep running.                                                           *)
(***************************************************************************)
\* The positions at which a call requests a mutex.
LockRequests ==
  {"ir_lock_next", "ir_lock_index", "ir_lock_pos", "s_lock_index", "s_lock_pos",
   "rx_clear_index", "rx_clear_pos", "rx_reset", "st_lock_index", "st_read_next"}

C24_PersistedCounterAboveStoredIds ==
  \A id \in DOMAIN vec \cup DOMAIN raw : LoadNextId(ctr) > id

(***************************************************************************)
(* C25.  After any sequence of successful index_record calls for one note  *)
(* or memory dedup key, the active vec: entry for that key (if any) was    *)
(* written by the most recent call: a stale record from an earlier call    *)
(* never stays active and searchable after a later call with different     *)
(* content has returned success, whatever the length of the later content. *)
(***************************************************************************)
\* The last two calls were successful index_record calls for the same note
\* or memory record, one right after the other, with different contents.
LaterCallSameKey ==
  /\ hist.ok /\ AllIdle
  /\ hist.last.op = "index_record" /\ hist.prev.op = "index_record"
  /\ hist.last.st \in {"note", "memory"}
  /\ hist.last.st = hist.prev.st /\ hist.last.sid = hist.prev.sid
  /\ hist.last.content # hist.prev.content
  /\ hist.last.res = "ok" /\ hist.prev.res = "ok"

C25_NoStaleRecordAfterLaterCall ==
  LaterCallSameKey =>
    /\ \A id \in VecOf(vec, hist.last.st, hist.last.sid) :
         vec[id] = RagMetadata(hist.last.st, hist.last.sid, hist.last.content)
    /\ \A q \in Queries, limit \in 1..MaxLimit, filter \in Filters :
         \A rs \in SearchResults(StateNow, q, limit, filter) :
           \A i \in 1..Len(rs) :
             (/\ rs[i].metadata.source_type = hist.last.st
              /\ rs[i].metadata.source_id = hist.last.sid)
               => rs[i].metadata = RagMetadata(hist.last.st, hist.last.sid,
                                               hist.last.content)

(***************************************************************************)
(* C26.  After a restart, the rebuild from the durable store yields a      *)
(* position table that lists, in ascending numeric vector_id order (not    *)
(* lexicographic key order), exactly the ids of all raw:{id} entries of    *)
(* length 4*D, and the vector at each position is the little-endian        *)
(* decoding of that entry's bytes: the vector index_record stored.         *)
(***************************************************************************)
ValidRawIds == { id \in DOMAIN raw : Len(raw[id]) = 4 * EmbeddingDim }

C26_RebuildIsNumericallySorted ==
  hist.restarted =>
    /\ Len(position_to_id) = Cardinality(ValidRawIds)
    /\ { position_to_id[i] : i \in 1..Len(position_to_id) } = ValidRawIds
    /\ \A i, j \in 1..Len(position_to_id) :
         i < j => position_to_id[i] < position_to_id[j]
    /\ ntotal(index) = Len(position_to_id)
    /\ \A i \in 1..Len(position_to_id) :
         /\ Len(index[i]) = EmbeddingDim
         /\ to_le_bytes(index[i]) = raw[position_to_id[i]]
         /\ \E t \in StoredTexts \cup Texts : index[i] = embed_text(t)

\* The store holds raw:2 and raw:10, which the key order lists as 10, 2, and
\* raw:9 with a value of another length.
C26_Witness ==
  /\ hist.restarted
  /\ position_to_id = << 2, 10 >>
  /\ 9 \in DOMAIN raw /\ Len(raw[9]) # 4 * EmbeddingDim
  /\ KeyLess(10, 2)
  /\ index = << embed_text(TextC), embed_text(TextB) >>

(***************************************************************************)
(* C27.  Within one index_record call the steps happen in this order:      *)
(* embed, allocate and persist the counter, write vec:{id}, write          *)
(* raw:{id}, write the dedup pointer, and only then append to FlatIndex    *)
(* and the position table; so every vector_id present in the position      *)
(* table had its vec:, raw: and dedup: entries written before it became    *)
(* visible to search.                                                      *)
(***************************************************************************)
C27_VisibleIdsWereFullyWritten ==
  \A i \in 1..Len(position_to_id) :
    position_to_id[i] \in alloc.written /\ position_to_id[i] \in alloc.pointed

(***************************************************************************)
(* C28.  Every index_record call that reaches the append step increases    *)
(* the FlatIndex size and the position-table length by exactly one and     *)
(* never removes or rewrites an existing position; after a note or memory  *)
(* record is replaced, its old vector_id is still in the position table at *)
(* its original position, now without metadata.                            *)
(***************************************************************************)
\* p's index_record leaves its append step.
Appends(p) == pc[p] = "ir_append" /\ pc'[p] # "ir_append" /\ ~RestartStep

AppendAddsOneAtTheEnd ==
  \A p \in Procs :
    Appends(p) =>
      /\ ntotal(index') = ntotal(index) + 1
      /\ Len(position_to_id') = Len(position_to_id) + 1
      /\ IsPrefix(index, index')
      /\ IsPrefix(position_to_id, position_to_id')
      /\ position_to_id'[Len(position_to_id')] = loc[p].vector_id
      /\ index'[Len(index')] = loc[p].embedding

OldIdKeepsItsPosition ==
  ReplacedExisting =>
    LET old == hist.last.old_id
    IN /\ \E i \in 1..Len(hist.pre.position_to_id) : hist.pre.position_to_id[i] = old
       /\ \A i \in 1..Len(hist.pre.position_to_id) :
            /\ position_to_id[i] = hist.pre.position_to_id[i]
            /\ index[i] = hist.pre.index[i]
       /\ old \notin DOMAIN vec
       /\ Len(position_to_id) = Len(hist.pre.position_to_id) + 1

C28_AppendOnlyOldIdStays ==
  [][AppendAddsOneAtTheEnd]_vars /\ []OldIdKeepsItsPosition

\* A note was replaced while another record sat in the index: the old id is
\* at its position, without metadata, and the new one at the end.
C28_Witness ==
  /\ ReplacedExisting /\ AllIdle
  /\ Len(position_to_id) = 2
  /\ position_to_id[1] = hist.last.old_id
  /\ hist.last.old_id \notin DOMAIN vec
  /\ position_to_id[2] = hist.last.vector_id
  /\ index[1] # index[2]

(***************************************************************************)
(* C30.  In every state reached by sequential, failure-free index_record   *)
(* and reindex_all calls, the durable namespaces agree: dedup:{t}:{s}      *)
(* exists exactly when one vec:{id} entry with source (t, s) exists, it    *)
(* holds that id, raw:{id} exists for it, and that id occurs exactly once  *)
(* in the position table.                                                  *)
(***************************************************************************)
\* The records the store names, in metadata or in a dedup pointer.
KnownSources ==
  { << vec[id].source_type, vec[id].source_id >> : id \in DOMAIN vec }
    \cup DOMAIN dedup \cup (SourceTypes \X SourceIds)

Occurrences(seq, x) == Cardinality({ i \in 1..Len(seq) : seq[i] = x })

C30_NamespacesAgree ==
  AllIdle =>
    \A k \in KnownSources :
      LET ids == VecOf(vec, k[1], k[2])
      IN /\ (k \in DOMAIN dedup) <=> (Cardinality(ids) = 1)
         /\ Cardinality(ids) <= 1
         /\ k \in DOMAIN dedup =>
              /\ ids = {dedup[k]}
              /\ dedup[k] \in DOMAIN raw
              /\ Occurrences(position_to_id, dedup[k]) = 1

\* A conversation and a note with the same source id are both indexed, the
\* note for the second time.
C30_Witness ==
  /\ AllIdle
  /\ << "conversation", 1 >> \in DOMAIN dedup
  /\ << "note", 1 >> \in DOMAIN dedup
  /\ Cardinality(DOMAIN vec) = 2
  /\ Len(position_to_id) = 3

(***************************************************************************)
(* C31.  index_record finishes embedding before it acquires the index and  *)
(* position-table locks: in no reachable state does an index_record caller *)
(* hold the index lock while its embedding is still to be computed, so a   *)
(* concurrent search or append is never blocked by another index_record's  *)
(* embedding.                                                              *)
(***************************************************************************)
\* The positions of index_record_sync up to and including the embedding.
BeforeEmbedded == {"ir_dedup", "ir_del_vec", "ir_del_raw", "ir_del_dedup", "ir_embed"}
\* The positions of index_record_sync at which it holds or asks for the
\* index and position-table locks.
InAppendScope == {"ir_lock_index", "ir_lock_pos", "ir_append"}

C31_EmbeddingDoneBeforeIndexLock ==
  \A p \in Procs :
    /\ pc[p] \in BeforeEmbedded => (indexLock # p /\ posLock # p)
    /\ pc[p] \in InAppendScope =>
         loc[p].embedding = embed_text(loc[p].content)
    /\ (loc[p].op = "index_record" /\ (indexLock = p \/ posLock = p)) =>
         (pc[p] \in InAppendScope /\ Len(loc[p].embedding) = EmbeddingDim)

\* One caller is about to embed while the other holds the index lock for
\* its append or its search.
C31_Witness ==
  \E p, q \in Procs :
    /\ p # q
    /\ pc[p] = "ir_embed"
    /\ indexLock = q
    /\ pc[q] \in {"ir_lock_pos", "ir_append", "s_embed"}

(***************************************************************************)
(* C32.  reindex_all ingests conversation rows first, then note rows, then *)
(* memory rows, each group ascending by source id; with no concurrent      *)
(* writers the vector_ids it assigns are smaller for every conversation    *)
(* than for every note, smaller for every note than for every memory, and  *)
(* increasing with the source id inside each group, starting from 0.       *)
(***************************************************************************)
GroupRank(st) == IF st = "conversation" THEN 1 ELSE IF st = "note" THEN 2 ELSE 3

\* Record a is ingested before record b.
IngestedBefore(a, b) ==
  \/ GroupRank(a.source_type) < GroupRank(b.source_type)
  \/ (a.source_type = b.source_type /\ a.source_id < b.source_id)

ReindexReturned == hist.ok /\ AllIdle /\ hist.last.op = "reindex_all"

C32_ReindexAssignsIdsInIngestOrder ==
  ReindexReturned =>
    /\ DOMAIN vec = 0..(Cardinality(DOMAIN vec) - 1)
    /\ \A a, b \in DOMAIN vec : IngestedBefore(vec[a], vec[b]) => a < b
    /\ position_to_id = [i \in 1..Cardinality(DOMAIN vec) |-> i - 1]
    /\ next_vector_id = Cardinality(DOMAIN vec)

\* All three groups were ingested, two rows of each, from tables stored out
\* of id order.
C32_Witness ==
  /\ ReindexReturned
  /\ Len(sqlite.conversation_history) = 2
  /\ sqlite.conversation_history[1].id > sqlite.conversation_history[2].id
  /\ \A st \in SourceTypes : \A sid \in {1, 2} : Cardinality(VecOf(vec, st, sid)) = 1
  /\ Cardinality(DOMAIN vec) = 6
  /\ vec[0].source_type = "conversation" /\ vec[5].source_type = "memory"

(***************************************************************************)
(* C33.  FlatIndex.search orders candidates with equal score by ascending  *)
(* position (insertion order), and when equal scores straddle the top-k    *)
(* cut the lower positions are the ones kept; the result is therefore the  *)
(* same for the same index contents, query and k.                          *)
(***************************************************************************)
\* p's search holds the positions and scores FlatIndex::search returned.
HasCandidates(p) ==
  loc[p].op = "search" /\ pc[p] \in {"s_lock_pos", "s_walk", "s_done"}

C33_TiesByAscendingPosition ==
  \A p \in Procs :
    HasCandidates(p) =>
      LET pos == loc[p].positions
          sc == loc[p].scores
          left == { x \in 0..(ntotal(index) - 1) : \A i \in 1..Len(pos) : pos[i] # x }
      IN /\ \A i, j \in 1..Len(pos) : (i < j /\ sc[i] = sc[j]) => pos[i] < pos[j]
         /\ \A x \in left : \A i \in 1..Len(pos) :
              Dot(loc[p].embedding, index[x + 1]) = sc[i] => x > pos[i]

(***************************************************************************)
(* FlatIndex::search as a function of the index contents, the query and k. *)
(***************************************************************************)
FlatVectors == { embed_text(t) : t \in Texts }
FlatIndexes ==
  UNION { [1..n -> FlatVectors] : n \in 0..MaxIndexLen }

InitFlat ==
  /\ index \in FlatIndexes
  /\ position_to_id = << >>
  /\ next_vector_id = 0
  /\ indexLock = 0 /\ posLock = 0 /\ nextLock = 0
  /\ vec = EmptyMap /\ raw = EmptyMap /\ dedup = EmptyMap /\ ctr = EmptyMap
  /\ pc = [p \in Procs |-> IF p = 1 THEN "fs_call" ELSE "idle"]
  /\ \E q \in FlatVectors, k \in 0..MaxK :
       loc = [p \in Procs |->
                IF p = 1 THEN [LocInit EXCEPT !.op = "flat_search",
                                              !.embedding = q, !.k = k]
                ELSE LocInit]
  /\ events = 0
  /\ faultsLeft = 0
  /\ alloc = [since |-> {}, ever |-> -1, written |-> {}, pointed |-> {},
             lost |-> {}, stale |-> {}]
  /\ hist = HistOff
  /\ sqlite = EmptyPool

\* rag.rs:39-69: index.search(query, k) returns (positions, scores).
FlatSearch ==
  /\ pc[1] = "fs_call"
  /\ \E pos \in FlatIndexSearch(index, loc[1].embedding, loc[1].k) :
       loc' = [loc EXCEPT ![1].positions = pos,
                          ![1].scores = Scores(index, loc[1].embedding, pos)]
  /\ pc' = [pc EXCEPT ![1] = "fs_done"]
  /\ UNCHANGED << mem, locks, db, events, faultsLeft, alloc, hist, sqlite >>

SpecFlat == InitFlat /\ [][FlatSearch]_vars

\* FlatIndex::search has returned.
FlatReturned == pc[1] = "fs_done"

(***************************************************************************)
(* C34.  FlatIndex.search(query, k) returns an empty result when k = 0 or  *)
(* the index is empty, and otherwise exactly min(k, size) distinct         *)
(* positions, each below size, in non-increasing score order, such that no *)
(* stored vector left out has a higher inner product with the query than   *)
(* one that is returned.                                                   *)
(***************************************************************************)
C34_FlatSearchReturnsTheTopK ==
  FlatReturned =>
    LET pos == loc[1].positions
        q == loc[1].embedding
        k == loc[1].k
        size == Len(index)
        n == IF k < size THEN k ELSE size
    IN /\ Len(loc[1].scores) = Len(pos)
       /\ (k = 0 \/ size = 0) => pos = << >>
       /\ (k # 0 /\ size # 0) =>
            /\ Len(pos) = n
            /\ \A i, j \in 1..n : i # j => pos[i] # pos[j]
            /\ \A i \in 1..n : pos[i] >= 0 /\ pos[i] < size
            /\ \A i \in 1..n : loc[1].scores[i] = Dot(q, index[pos[i] + 1])
            /\ \A i \in 1..(n - 1) : loc[1].scores[i] >= loc[1].scores[i + 1]
            /\ \A x \in 0..(size - 1) :
                 (\A i \in 1..n : pos[i] # x) =>
                   \A i \in 1..n : Dot(q, index[x + 1]) <= loc[1].scores[i]

\* k = 2 of three stored vectors: the best two are returned, the worst is left.
C34_Witness ==
  /\ FlatReturned
  /\ Len(index) = 3 /\ loc[1].k = 2
  /\ Len(loc[1].positions) = 2
  /\ loc[1].scores[1] > loc[1].scores[2]
  /\ \E x \in 0..2 :
       /\ x # loc[1].positions[1] /\ x # loc[1].positions[2]
       /\ Dot(loc[1].embedding, index[x + 1]) < loc[1].scores[2]

(***************************************************************************)
(* index_record and search calls made one after another, none failing:     *)
(* enough of them for the index to outgrow the over-fetch of a search.     *)
(***************************************************************************)
InitDeep ==
  /\ index = FlatIndexNew
  /\ position_to_id = << >>
  /\ next_vector_id = 0
  /\ indexLock = 0 /\ posLock = 0 /\ nextLock = 0
  /\ vec = EmptyMap /\ raw = EmptyMap /\ dedup = EmptyMap /\ ctr = EmptyMap
  /\ pc = [p \in Procs |-> "idle"]
  /\ loc = [p \in Procs |-> LocInit]
  /\ events = MaxEvents - DeepCalls
  /\ faultsLeft = 0
  /\ alloc = [since |-> {}, ever |-> -1, written |-> {}, pointed |-> {},
             lost |-> {}, stale |-> {}]
  /\ hist = HistInit
  /\ sqlite = EmptyPool

NextDeep ==
  \E p \in Procs :
    /\ OthersIdle(p)
    /\ (IndexRecordCall(p) \/ IndexRecordStep(p) \/ SearchCall(p) \/ SearchStep(p))

SpecDeep == InitDeep /\ [][NextDeep]_vars

\* p's search is in or past its loop over the candidates.
InLoop(p) == loc[p].op = "search" /\ pc[p] \in {"s_walk", "s_done"}

\* The strictly increasing maps from 1..m into 1..n.
Increasing(m, n) ==
  { f \in [1..m -> 1..n] : \A a, b \in 1..m : a < b => f[a] < f[b] }

\* The vector ids with metadata that passes the filter.
Matching(filter) ==
  { id \in DOMAIN vec : filter = "" \/ vec[id].source_type = filter }

(***************************************************************************)
(* C35.  search makes a single pass over the top                           *)
(* k = max(1, min(3*limit, index size)) candidates in ranked order: every  *)
(* returned record is among those k positions, results keep the ranked     *)
(* (non-increasing score) order, and if orphans or filtered candidates use *)
(* up the k slots it returns fewer than limit results without querying     *)
(* again with a larger k.                                                  *)
(***************************************************************************)
\* The candidates are fetched once and stay as they are through the loop, the
\* call returns what the loop collected, and what it collects is an
\* order-preserving selection of the k fetched candidates.
C35_SinglePassOverTopK ==
  /\ [][
      \A p \in Procs :
        /\ (InLoop(p) /\ pc'[p] # "idle") =>
             (loc'[p].positions = loc[p].positions /\ loc'[p].k = loc[p].k
              /\ loc'[p].scores = loc[p].scores /\ pc'[p] \in {"s_walk", "s_done"})
        /\ (InLoop(p) /\ pc[p] = "s_done" /\ pc'[p] # "s_done") =>
             (pc'[p] = "idle" /\ hist'.last.op = "search" /\ hist'.last.res = "ok"
              /\ hist'.last.results = loc[p].results)
     ]_vars
  /\ [](
      \A p \in Procs :
        InLoop(p) =>
          LET l == loc[p]
              size == ntotal(index)
              m3 == IF 3 * l.limit < size THEN 3 * l.limit ELSE size
              k == IF m3 < 1 THEN 1 ELSE m3
              n == Len(l.results)
          IN /\ l.k = k
             /\ Len(l.positions) = k
             /\ l.positions \in FlatIndexSearch(index, l.embedding, k)
             /\ \E f \in Increasing(n, l.i - 1) :
                  \A j \in 1..n :
                    /\ l.results[j].score = l.scores[f[j]]
                    /\ l.positions[f[j]] < Len(position_to_id)
                    /\ l.results[j].vector_id = position_to_id[l.positions[f[j]] + 1]
                    /\ l.results[j].metadata = vec[l.results[j].vector_id]
             /\ \A j \in 1..(n - 1) : l.results[j].score >= l.results[j + 1].score
             /\ (pc[p] = "s_done" /\ n < l.limit) => l.i = k + 1
     )

\* limit 1 on four positions: the three fetched candidates are orphans or
\* filtered out, a matching record lies at the fourth, nothing is returned.
C35_Witness ==
  \E p \in Procs :
    /\ InLoop(p) /\ pc[p] = "s_done"
    /\ loc[p].limit = 1 /\ loc[p].k = 3 /\ ntotal(index) = 4
    /\ loc[p].results = << >>
    /\ loc[p].i = 4
    /\ \E x \in 0..3 :
         /\ \A i \in 1..3 : loc[p].positions[i] # x
         /\ position_to_id[x + 1] \in Matching(loc[p].filter)
    /\ \E i \in 1..3 : position_to_id[loc[p].positions[i] + 1] \notin DOMAIN vec

(***************************************************************************)
(* RagEngine::init on a data directory that holds corrupt raw: entries:    *)
(* values of a wrong length and a key whose suffix is not a number.        *)
(***************************************************************************)
CorruptStores == UNION { [S -> StoredRaw] : S \in SUBSET (StoredIds \cup {NonNumericKey}) }

InitCorrupt ==
  /\ raw \in CorruptStores
  /\ vec = [id \in DOMAIN raw |-> RagMetadata("conversation", id, TextB)]
  /\ dedup = EmptyMap
  /\ ctr = [x \in {CounterKey} |-> 11]
  /\ index = FlatIndexNew
  /\ position_to_id = << >>
  /\ next_vector_id = 0
  /\ indexLock = 0 /\ posLock = 0 /\ nextLock = 0
  /\ pc = [p \in Procs |-> "idle"]
  /\ loc = [p \in Procs |-> LocInit]
  /\ events = 0
  /\ faultsLeft = 0
  /\ alloc = [since |-> {}, ever |-> -1, written |-> {}, pointed |-> {},
             lost |-> {}, stale |-> {}]
  /\ hist = HistOff
  /\ sqlite = EmptyPool

SpecCorrupt == InitCorrupt /\ [][Restart]_vars

(***************************************************************************)
(* C36.  During the restart rebuild, a raw:{id} entry whose value is not   *)
(* exactly 4*D bytes, or whose key suffix is not a number, is skipped and  *)
(* every well-formed entry is still loaded: one corrupt record never       *)
(* aborts the rebuild nor prevents the engine from starting.               *)
(***************************************************************************)
C36_CorruptRawEntriesAreSkipped ==
  hist.restarted =>
    LET loaded == { position_to_id[i] : i \in 1..Len(position_to_id) }
    IN /\ \A id \in DOMAIN raw :
            id \in loaded <=> (id >= 0 /\ Len(raw[id]) = 4 * EmbeddingDim)
       /\ loaded \subseteq DOMAIN raw
       /\ Len(position_to_id) = Cardinality(loaded)
       /\ ntotal(index) = Len(position_to_id)
       /\ \A i \in 1..Len(position_to_id) :
            to_le_bytes(index[i]) = raw[position_to_id[i]]
       /\ next_vector_id = ctr[CounterKey]
       /\ AllIdle /\ NoLockHeld

\* A store with a non-numeric key, a value of a wrong length and two
\* well-formed entries: the two are loaded.
C36_Witness ==
  /\ hist.restarted
  /\ DOMAIN raw = StoredIds \cup {NonNumericKey}
  /\ Len(raw[NonNumericKey]) = 4 * EmbeddingDim
  /\ Len(raw[9]) # 4 * EmbeddingDim
  /\ position_to_id = << 2, 10 >>
  /\ ntotal(index) = 2

(***************************************************************************)
(* C37.  In every reachable state, including after an index_record call    *)
(* aborted by a durable-store failure and after a restart, the index       *)
(* vector count reported by stats() is at least the metadata entry count:  *)
(* the two differ only by the number of orphaned positions, and no vec:    *)
(* metadata entry exists without a position in the index.  Stated for the  *)
(* states in which no call is running.                                     *)
(***************************************************************************)
\* The vector ids that have a position in the index.
Positioned == { position_to_id[i] : i \in 1..Len(position_to_id) }
\* The positions whose vector id has no vec: entry.
OrphanPositions == { i \in 1..Len(position_to_id) : position_to_id[i] \notin DOMAIN vec }

C37_IndexCountAtLeastMetaCount ==
  AllIdle =>
    /\ StatsOf(StateNow)[1] >= StatsOf(StateNow)[2]
    /\ StatsOf(StateNow)[1] - StatsOf(StateNow)[2] = Cardinality(OrphanPositions)
    /\ DOMAIN vec \subseteq Positioned

(***************************************************************************)
(* C38.  search does not hold the index lock while it embeds the query or  *)
(* reads metadata from the durable store: a concurrent index_record that   *)
(* is ready to append, or a concurrent stats call, is never made to wait   *)
(* for a search's embedding computation or durable I/O.                    *)
(***************************************************************************)
\* p's search is about to embed the query or to read a vec: entry.
EmbedsOrReads(p) == loc[p].op = "search" /\ pc[p] \in {"s_embed", "s_walk"}
\* q is at a request for the index lock.
WantsIndexLock(q) == pc[q] \in {"ir_lock_index", "st_lock_index"}

C38_SearchEmbedsAndReadsUnlocked ==
  \A p \in Procs :
    EmbedsOrReads(p) =>
      /\ indexLock # p
      /\ \A q \in Procs \ {p} : WantsIndexLock(q) => IndexLockFree

====
